---- MODULE Spec2Model ----
(***************************************************************************)
(* FB2 -> EPUB converter (alcherk/ac_fb2epub).                             *)
(*                                                                         *)
(* Strings are sequences of one-character strings, so that escaping,       *)
(* substring search and replacement are computed as the Go code computes   *)
(* them.  A file written through fmt.Sprintf with a fixed template is      *)
(* represented by the values substituted into the template.                *)
(***************************************************************************)
EXTENDS Integers, Sequences, FiniteSets, TLC

VARIABLES
    pc,         \* position of the running call
    fb2,        \* *models.FictionBook handed to GenerateEPUB
    entries,    \* zip.Writer: the entries created so far, in order
    imageMap,   \* imageMap of GenerateEPUB (collectImages result)
    pending,    \* keys of imageMap addBinaryResources has not visited yet
    err,        \* error returned by the call
    closed,     \* outcome of the deferred zipWriter.Close / file.Close
    para,       \* *models.Paragraph handed to processParagraph
    result,     \* strings.Builder `result` of processParagraph
    input,      \* XML tokens the decoder has not consumed yet
    parsed,     \* (*models.FictionBook, error) returned by the parser
    calls,      \* the GenerateEPUB calls running concurrently, by output path
    conversionJobs,     \* handlers: the job table, by job id
    completedJobCount,  \* handlers: completions since the last trigger
    cleanupMutex,       \* handlers: "free", or "cleanup" while a cleanup runs
    tempDir,            \* the entries of cfg.TempDir, by name
    outputs,            \* the job ids whose output.epub exists
    now,                \* time.Now(), in hours
    issued,             \* number of job ids generated so far
    workers,            \* the processConversion goroutines, by job id
    cleanup,            \* the cleanupOldJobs goroutines
    cleanupsStarted,    \* number of `go cleanupOldJobs` statements executed
    handling            \* the GET request being handled, and its answer

\* the variables of a single converter call
converterVars ==
    <<pc, fb2, entries, imageMap, pending, err, closed, para, result, input,
      parsed>>

\* the variables of the calls and goroutines that run side by side
serviceVars ==
    <<calls, conversionJobs, completedJobCount, cleanupMutex, tempDir,
      outputs, now, issued, workers, cleanup, cleanupsStarted,
      handling>>

\* the variables of package handlers
handlerVars ==
    <<conversionJobs, completedJobCount, cleanupMutex, tempDir, outputs, now,
      issued, workers, cleanup, cleanupsStarted, handling>>

vars == <<converterVars, serviceVars>>

(***************************************************************************)
(* Bounds of the model                                                     *)
(***************************************************************************)
MaxNodes == 4
MaxChain == 7
MaxBinaries == 3
MaxTextLen == 2
MaxTokens == 3
MaxAuthors == 2
MaxCalls == 2
MaxJobs == 3
MaxClock == 2
CleanupTriggerCount == 2
Hour == 1

(***************************************************************************)
(* String constants of the source                                          *)
(***************************************************************************)
S_mimetype ==
    <<"m", "i", "m", "e", "t", "y", "p", "e">>
S_mimetypeBody ==
    <<"a", "p", "p", "l", "i", "c", "a", "t", "i", "o", "n", "/", "e", "p", "u", "b", "+", "z", "i", "p">>
S_container ==
    <<"M", "E", "T", "A", "-", "I", "N", "F", "/", "c", "o", "n", "t", "a", "i", "n", "e", "r", ".", "x", "m", "l">>
S_contentOPF ==
    <<"O", "E", "B", "P", "S", "/", "c", "o", "n", "t", "e", "n", "t", ".", "o", "p", "f">>
S_tocNCX ==
    <<"O", "E", "B", "P", "S", "/", "t", "o", "c", ".", "n", "c", "x">>
S_navXHTML ==
    <<"O", "E", "B", "P", "S", "/", "n", "a", "v", ".", "x", "h", "t", "m", "l">>
S_coverXHTML ==
    <<"O", "E", "B", "P", "S", "/", "c", "o", "v", "e", "r", ".", "x", "h", "t", "m", "l">>
S_contentXHTML ==
    <<"O", "E", "B", "P", "S", "/", "c", "o", "n", "t", "e", "n", "t", ".", "x", "h", "t", "m", "l">>
S_imagesDir ==
    <<"O", "E", "B", "P", "S", "/", "i", "m", "a", "g", "e", "s", "/">>
S_images ==
    <<"i", "m", "a", "g", "e", "s", "/">>
S_section ==
    <<"s", "e", "c", "t", "i", "o", "n", "-">>
S_sub ==
    <<"-", "s", "u", "b", "-">>
S_amp ==
    <<"&", "a", "m", "p", ";">>
S_apos ==
    <<"&", "#", "3", "9", ";">>
S_lt ==
    <<"&", "l", "t", ";">>
S_gt ==
    <<"&", "g", "t", ";">>
S_quot ==
    <<"&", "#", "3", "4", ";">>
S_UntitledSection ==
    <<"U", "n", "t", "i", "t", "l", "e", "d", " ", "S", "e", "c", "t", "i", "o", "n">>
S_Untitled ==
    <<"U", "n", "t", "i", "t", "l", "e", "d">>
S_Unknown ==
    <<"U", "n", "k", "n", "o", "w", "n">>
S_jpg ==
    <<".", "j", "p", "g">>
S_png ==
    <<".", "p", "n", "g">>
S_gif ==
    <<".", "g", "i", "f">>
S_webp ==
    <<".", "w", "e", "b", "p">>
S_svg ==
    <<".", "s", "v", "g">>
S_Cover ==
    <<"C", "o", "v", "e", "r">>
S_Content ==
    <<"C", "o", "n", "t", "e", "n", "t">>
S_urnuuid ==
    <<"u", "r", "n", ":", "u", "u", "i", "d", ":">>
S_aOpen ==
    <<"<", "a", " ", "h", "r", "e", "f", "=", "\"">>
S_aMid ==
    <<"\"", ">">>
S_aClose ==
    <<"<", "/", "a", ">">>
S_strongOpen ==
    <<"<", "s", "t", "r", "o", "n", "g", ">">>
S_strongClose ==
    <<"<", "/", "s", "t", "r", "o", "n", "g", ">">>
S_emOpen ==
    <<"<", "e", "m", ">">>
S_emClose ==
    <<"<", "/", "e", "m", ">">>
S_imgOpen ==
    <<" ", "<", "i", "m", "g", " ", "s", "r", "c", "=", "\"">>
S_imgClose ==
    <<"\"", " ", "a", "l", "t", "=", "\"", "\"", "/", ">">>
S_imageJpeg ==
    <<"i", "m", "a", "g", "e", "/", "j", "p", "e", "g">>
S_imageJpg ==
    <<"i", "m", "a", "g", "e", "/", "j", "p", "g">>
S_imagePng ==
    <<"i", "m", "a", "g", "e", "/", "p", "n", "g">>
S_imageGif ==
    <<"i", "m", "a", "g", "e", "/", "g", "i", "f">>
S_imageWebp ==
    <<"i", "m", "a", "g", "e", "/", "w", "e", "b", "p">>
S_imageSvg ==
    <<"i", "m", "a", "g", "e", "/", "s", "v", "g", "+", "x", "m", "l">>
S_coverHref ==
    <<"c", "o", "v", "e", "r", ".", "x", "h", "t", "m", "l">>
S_contentHref ==
    <<"c", "o", "n", "t", "e", "n", "t", ".", "x", "h", "t", "m", "l">>
S_contentFrag ==
    <<"c", "o", "n", "t", "e", "n", "t", ".", "x", "h", "t", "m", "l", "#">>
S_navpoint ==
    <<"n", "a", "v", "p", "o", "i", "n", "t", "-">>
S_en ==
    <<"e", "n">>

S_Digits ==
    <<"0", "1", "2", "3", "4", "5", "6", "7", "8", "9">>

\* fmt.Sprintf("%d", n) for n >= 0
RECURSIVE Itoa(_)
Itoa(n) ==
    IF n < 10 THEN <<S_Digits[n + 1]>>
    ELSE Itoa(n \div 10) \o <<S_Digits[(n % 10) + 1]>>

(***************************************************************************)
(* package html / package strings                                          *)
(***************************************************************************)
EscapeChar(c) ==
    CASE c = "&"  -> S_amp
      [] c = "'"  -> S_apos
      [] c = "<"  -> S_lt
      [] c = ">"  -> S_gt
      [] c = "\"" -> S_quot
      [] OTHER    -> <<c>>

RECURSIVE EscapeString(_)
EscapeString(s) ==
    IF s = <<>> THEN <<>>
    ELSE EscapeChar(Head(s)) \o EscapeString(Tail(s))

HasPrefixAt(s, sub, i) ==
    /\ i + Len(sub) - 1 <= Len(s)
    /\ \A k \in 1..Len(sub) : s[i + k - 1] = sub[k]

\* strings.Index, 1-based; 0 when sub does not occur
Index(s, sub) ==
    LET hits == {i \in 1..(Len(s) + 1) : HasPrefixAt(s, sub, i)}
    IN  IF hits = {} THEN 0
        ELSE CHOOSE i \in hits : \A j \in hits : i <= j

Contains(s, sub) ==
    Index(s, sub) # 0

\* strings.Replace(s, old, new, 1) with old # ""
ReplaceFirst(s, old, new) ==
    LET i == Index(s, old)
    IN  IF i = 0 THEN s
        ELSE SubSeq(s, 1, i - 1) \o new \o SubSeq(s, i + Len(old), Len(s))

\* strings.TrimPrefix
TrimPrefix(s, prefix) ==
    IF HasPrefixAt(s, prefix, 1) THEN SubSeq(s, Len(prefix) + 1, Len(s))
    ELSE s

\* strings.Join
RECURSIVE Join(_, _)
Join(parts, sep) ==
    IF parts = <<>> THEN <<>>
    ELSE IF Len(parts) = 1 THEN parts[1]
    ELSE parts[1] \o sep \o Join(Tail(parts), sep)

(***************************************************************************)
(* package models                                                          *)
(***************************************************************************)
Link(href, text) ==
    [Href |-> href, Text |-> text]

Image(href) ==
    [Href |-> href]

Strong(text, strong, emphasis, link) ==
    [Text |-> text, Strong |-> strong, Emphasis |-> emphasis, Link |-> link]

Emphasis(text, strong, emphasis, link) ==
    [Text |-> text, Strong |-> strong, Emphasis |-> emphasis, Link |-> link]

Paragraph(text, strong, emphasis, image, link) ==
    [Text |-> text, Strong |-> strong, Emphasis |-> emphasis,
     Image |-> image, Link |-> link]

PlainParagraph(text) ==
    Paragraph(text, <<>>, <<>>, <<>>, <<>>)

\* Section.Title is *Title: nil, or a Title with its p children
NilTitle ==
    [present |-> FALSE, Paragraph |-> <<>>]

Title(paragraphs) ==
    [present |-> TRUE, Paragraph |-> paragraphs]

Section(title, sections, paragraphs) ==
    [Title |-> title, Section |-> sections, Paragraph |-> paragraphs,
     Poem |-> <<>>, Cite |-> <<>>, EmptyLine |-> 0]

Verse(text) ==
    [Text |-> text]

Stanza(verses) ==
    [Verse |-> verses]

Poem(title, stanzas) ==
    [Title |-> title, Stanza |-> stanzas]

Cite(paragraphs) ==
    [Paragraph |-> paragraphs]

Binary(id, contentType, data) ==
    [ID |-> id, ContentType |-> contentType, Data |-> data]

Author(first, middle, last, nick) ==
    [FirstName |-> first, MiddleName |-> middle, LastName |-> last,
     Nickname |-> nick]

FictionBook(bookTitle, authors, lang, bodyTitle, sections, binaries) ==
    [Description |-> [TitleInfo |-> [BookTitle |-> bookTitle,
                                     Author |-> authors, Lang |-> lang]],
     Body |-> [Title |-> [Paragraph |-> bodyTitle], Section |-> sections],
     Binary |-> binaries]
S_ncx ==
    <<"n", "c", "x">>
S_tocHref ==
    <<"t", "o", "c", ".", "n", "c", "x">>
S_nav ==
    <<"n", "a", "v">>
S_navHref ==
    <<"n", "a", "v", ".", "x", "h", "t", "m", "l">>
S_cover ==
    <<"c", "o", "v", "e", "r">>
S_content ==
    <<"c", "o", "n", "t", "e", "n", "t">>
S_mediaNCX ==
    <<"a", "p", "p", "l", "i", "c", "a", "t", "i", "o", "n", "/", "x", "-", "d", "t", "b", "n", "c", "x", "+", "x", "m", "l">>
S_mediaXHTML ==
    <<"a", "p", "p", "l", "i", "c", "a", "t", "i", "o", "n", "/", "x", "h", "t", "m", "l", "+", "x", "m", "l">>

(***************************************************************************)
(* encoding/base64: StdEncoding.DecodeString                               *)
(***************************************************************************)
S_Base64Alphabet ==
    <<"A", "B", "C", "D", "E", "F", "G", "H", "I", "J", "K", "L", "M",
      "N", "O", "P", "Q", "R", "S", "T", "U", "V", "W", "X", "Y", "Z",
      "a", "b", "c", "d", "e", "f", "g", "h", "i", "j", "k", "l", "m",
      "n", "o", "p", "q", "r", "s", "t", "u", "v", "w", "x", "y", "z",
      "0", "1", "2", "3", "4", "5", "6", "7", "8", "9", "+", "/">>

IsBase64Char(c) ==
    \E i \in 1..64 : S_Base64Alphabet[i] = c

Sextet(c) ==
    (CHOOSE i \in 1..64 : S_Base64Alphabet[i] = c) - 1

\* one quantum of four characters; the last one may carry "=" padding
DecodeQuantum(q, last) ==
    LET pad == IF q[4] # "=" THEN 0 ELSE IF q[3] # "=" THEN 1 ELSE 2
        ok  == /\ IsBase64Char(q[1]) /\ IsBase64Char(q[2])
               /\ (pad < 2 => IsBase64Char(q[3]))
               /\ (pad < 1 => IsBase64Char(q[4]))
               /\ (pad > 0 => last)
        v3  == IF pad < 2 THEN Sextet(q[3]) ELSE 0
        v4  == IF pad < 1 THEN Sextet(q[4]) ELSE 0
        n   == ((Sextet(q[1]) * 64 + Sextet(q[2])) * 64 + v3) * 64 + v4
        b   == <<n \div 65536, (n \div 256) % 256, n % 256>>
    IN  IF ok THEN [ok |-> TRUE, bytes |-> SubSeq(b, 1, 3 - pad)]
        ELSE [ok |-> FALSE, bytes |-> <<>>]

RECURSIVE DecodeQuanta(_)
DecodeQuanta(s) ==
    IF s = <<>> THEN [ok |-> TRUE, bytes |-> <<>>]
    ELSE IF Len(s) < 4 THEN [ok |-> FALSE, bytes |-> <<>>]
    ELSE LET head == DecodeQuantum(SubSeq(s, 1, 4), Len(s) = 4)
             rest == DecodeQuanta(SubSeq(s, 5, Len(s)))
         IN  IF head.ok /\ rest.ok
             THEN [ok |-> TRUE, bytes |-> head.bytes \o rest.bytes]
             ELSE [ok |-> FALSE, bytes |-> <<>>]

\* "\r" and "\n" are skipped by the decoder
DecodeString(s) ==
    DecodeQuanta(SelectSeq(s, LAMBDA c : c # "\n" /\ c # "\r"))

(***************************************************************************)
(* converter/epubgenerator.go: images                                      *)
(***************************************************************************)
ImageInfo(contentType, data) ==
    [ContentType |-> contentType, Data |-> data]

\* a Go map value: nil, or the map m
NilMap ==
    [nil |-> TRUE, m |-> <<>>]

MakeMap(m) ==
    [nil |-> FALSE, m |-> m]

MapSet(m, k, v) ==
    [x \in (DOMAIN m) \cup {k} |-> IF x = k THEN v ELSE m[x]]

RECURSIVE collectFrom(_, _)
collectFrom_StopsAtFailure(m, binaries) ==
    IF binaries = <<>> THEN m
    ELSE LET binary == Head(binaries)
             dec    == DecodeString(binary.Data)
         IN  IF ~dec.ok THEN m
             ELSE collectFrom(MapSet(m, binary.ID,
                                     ImageInfo(binary.ContentType, dec.bytes)),
                              Tail(binaries))

\* the loop of collectImages over fb2.Binary: a payload that does not decode
\* is skipped
collectFrom(m, binaries) ==
    IF binaries = <<>> THEN m
    ELSE LET binary == Head(binaries)
             dec    == DecodeString(binary.Data)
         IN  IF ~dec.ok THEN collectFrom(m, Tail(binaries))
             ELSE collectFrom(MapSet(m, binary.ID,
                                     ImageInfo(binary.ContentType, dec.bytes)),
                              Tail(binaries))

collectImages(book) ==
    MakeMap(collectFrom(<<>>, book.Binary))

getImageExtension(contentType) ==
    CASE contentType = S_imageJpeg \/ contentType = S_imageJpg -> S_jpg
      [] contentType = S_imagePng  -> S_png
      [] contentType = S_imageGif  -> S_gif
      [] contentType = S_imageWebp -> S_webp
      [] contentType = S_imageSvg  -> S_svg
      [] OTHER -> S_jpg

(***************************************************************************)
(* converter/epubgenerator.go: inline markup                               *)
(***************************************************************************)
processLink(l) ==
    LET href == EscapeString(l.Href)
        text == EscapeString(l.Text)
    IN  S_aOpen \o href \o S_aMid \o (IF text = <<>> THEN href ELSE text)
        \o S_aClose

\* the replace-or-append step shared by the span loops
replaceOrAppend(current, escapedText, markup) ==
    IF Contains(current, escapedText)
    THEN ReplaceFirst(current, escapedText, markup)
    ELSE current \o <<" ">> \o markup

\* loop body over the Link children of a strong / emphasis element
nestedLink(res, ownText, link) ==
    IF ownText # <<>> /\ link.Text # <<>>
    THEN replaceOrAppend(res, EscapeString(link.Text), processLink(link))
    ELSE res \o processLink(link)

RECURSIVE nestedLinks(_, _, _)
nestedLinks(res, ownText, links) ==
    IF links = <<>> THEN res
    ELSE nestedLinks(nestedLink(res, ownText, Head(links)), ownText,
                     Tail(links))

RECURSIVE processStrong(_), processEmphasis(_), strongAll(_), emphasisAll(_)
strongAll(ss) ==
    IF ss = <<>> THEN <<>> ELSE processStrong(Head(ss)) \o strongAll(Tail(ss))

emphasisAll(es) ==
    IF es = <<>> THEN <<>>
    ELSE processEmphasis(Head(es)) \o emphasisAll(Tail(es))

processStrong(s) ==
    S_strongOpen
    \o nestedLinks(EscapeString(s.Text), s.Text, s.Link)
    \o emphasisAll(s.Emphasis) \o strongAll(s.Strong)
    \o S_strongClose

processEmphasis(e) ==
    S_emOpen
    \o nestedLinks(EscapeString(e.Text), e.Text, e.Link)
    \o strongAll(e.Strong) \o emphasisAll(e.Emphasis)
    \o S_emClose

RECURSIVE linkTexts(_)
linkTexts(links) ==
    IF links = <<>> THEN <<>> ELSE Head(links).Text \o linkTexts(Tail(links))

RECURSIVE extractStrongText(_), extractEmphasisText(_), strongTexts(_), emphasisTexts(_)
strongTexts(ss) ==
    IF ss = <<>> THEN <<>>
    ELSE extractStrongText(Head(ss)) \o strongTexts(Tail(ss))

emphasisTexts(es) ==
    IF es = <<>> THEN <<>>
    ELSE extractEmphasisText(Head(es)) \o emphasisTexts(Tail(es))

extractStrongText(s) ==
    s.Text \o linkTexts(s.Link) \o emphasisTexts(s.Emphasis)
    \o strongTexts(s.Strong)

extractEmphasisText(e) ==
    e.Text \o linkTexts(e.Link) \o strongTexts(e.Strong)
    \o emphasisTexts(e.Emphasis)

paragraphLink_AlwaysAppends(res, link) ==
    res \o <<" ">> \o processLink(link)

\* processParagraph, body of the loop over p.Link
paragraphLink(res, link) ==
    IF link.Text # <<>>
    THEN replaceOrAppend(res, EscapeString(link.Text), processLink(link))
    ELSE res \o <<" ">> \o processLink(link)

paragraphStrong_AlwaysAppends(res, strong) ==
    res \o <<" ">> \o processStrong(strong)

\* processParagraph, body of the loop over p.Strong
paragraphStrong(res, strong) ==
    IF (strong.Text # <<>> \/ Len(strong.Link) > 0)
       /\ extractStrongText(strong) # <<>>
    THEN replaceOrAppend(res, EscapeString(extractStrongText(strong)),
                         processStrong(strong))
    ELSE res \o <<" ">> \o processStrong(strong)

\* processParagraph, body of the loop over p.Emphasis
paragraphEmphasis(res, emphasis) ==
    IF (emphasis.Text # <<>> \/ Len(emphasis.Link) > 0)
       /\ extractEmphasisText(emphasis) # <<>>
    THEN replaceOrAppend(res, EscapeString(extractEmphasisText(emphasis)),
                         processEmphasis(emphasis))
    ELSE res \o <<" ">> \o processEmphasis(emphasis)

\* processParagraph, body of the loop over p.Image
paragraphImage(res, image, images) ==
    LET href  == EscapeString(image.Href)
        imgID == TrimPrefix(href, <<"#">>)
        imgPath ==
            IF ~images.nil /\ imgID \in DOMAIN images.m
            THEN S_images \o imgID
                 \o getImageExtension(images.m[imgID].ContentType)
            ELSE S_images \o imgID \o S_jpg
    IN  res \o S_imgOpen \o EscapeString(imgPath) \o S_imgClose

RECURSIVE paragraphLinks(_, _)
paragraphLinks(res, links) ==
    IF links = <<>> THEN res
    ELSE paragraphLinks(paragraphLink(res, Head(links)), Tail(links))

RECURSIVE paragraphStrongs(_, _)
paragraphStrongs(res, strongs) ==
    IF strongs = <<>> THEN res
    ELSE paragraphStrongs(paragraphStrong(res, Head(strongs)), Tail(strongs))

RECURSIVE paragraphEmphases(_, _)
paragraphEmphases(res, emphases) ==
    IF emphases = <<>> THEN res
    ELSE paragraphEmphases(paragraphEmphasis(res, Head(emphases)),
                           Tail(emphases))

RECURSIVE paragraphImages(_, _, _)
paragraphImages(res, imgs, images) ==
    IF imgs = <<>> THEN res
    ELSE paragraphImages(paragraphImage(res, Head(imgs), images), Tail(imgs),
                         images)

processParagraph(p, images) ==
    paragraphImages(
        paragraphEmphases(
            paragraphStrongs(
                paragraphLinks(EscapeString(p.Text), p.Link),
                p.Strong),
            p.Emphasis),
        p.Image, images)

(***************************************************************************)
(* converter/epubgenerator.go: navigation builder                          *)
(***************************************************************************)
TOCEntry(id, title, children) ==
    [ID |-> id, Title |-> title, PlayOrder |-> 0, Children |-> children]

\* section.Title != nil && len(section.Title.Paragraph) > 0
hasTitle(section) ==
    section.Title.present /\ Len(section.Title.Paragraph) > 0

\* fmt.Sprintf("section-%d", i)
topID(i) ==
    S_section \o Itoa(i)

\* fmt.Sprintf("%s-sub-%d", baseID, i)
subID(baseID, i) ==
    baseID \o S_sub \o Itoa(i)

\* the title parts of buildTOCFromSection: non-empty rendered paragraphs
RECURSIVE titleParts(_)
titleParts(paragraphs) ==
    IF paragraphs = <<>> THEN <<>>
    ELSE LET text == processParagraph(Head(paragraphs), NilMap)
         IN  (IF text # <<>> THEN <<text>> ELSE <<>>)
             \o titleParts(Tail(paragraphs))

\* a *TOCEntry result is <<>> for nil and <<entry>> otherwise
RECURSIVE buildTOCFromSection(_, _), buildTOCChildren(_, _, _)
buildTOCChildren(sections, baseID, i) ==
    IF i > Len(sections) THEN <<>>
    ELSE buildTOCFromSection(sections[i], subID(baseID, i - 1))
         \o buildTOCChildren(sections, baseID, i + 1)

buildTOCFromSection_KeepsEmpty(section, baseID) ==
    LET children == buildTOCChildren(section.Section, baseID, 1)
    IN  IF ~hasTitle(section)
        THEN <<TOCEntry(baseID, <<>>, children)>>
        ELSE LET joined == Join(titleParts(section.Title.Paragraph), <<" ">>)
                 title  == IF joined = <<>> THEN S_UntitledSection ELSE joined
             IN  <<TOCEntry(baseID, title, children)>>

buildTOCFromSection(section, baseID) ==
    LET children == buildTOCChildren(section.Section, baseID, 1)
    IN  IF ~hasTitle(section)
        THEN IF Len(children) > 0
             THEN <<TOCEntry(baseID, <<>>, children)>>
             ELSE <<>>
        ELSE LET joined == Join(titleParts(section.Title.Paragraph), <<" ">>)
                 title  == IF joined = <<>> THEN S_UntitledSection ELSE joined
             IN  <<TOCEntry(baseID, title, children)>>

RECURSIVE buildTOCFrom(_, _)
buildTOCFrom(sections, i) ==
    IF i > Len(sections) THEN <<>>
    ELSE buildTOCFromSection(sections[i], topID(i - 1))
         \o buildTOCFrom(sections, i + 1)

buildTOC(book) ==
    buildTOCFrom(book.Body.Section, 1)

\* one piece written to the navMap builder
NavPoint(id, playOrder, text, src, indent) ==
    [kind |-> "navPoint", id |-> id, playOrder |-> playOrder, text |-> text,
     src |-> src, indent |-> indent]

NavPointEnd(indent) ==
    [kind |-> "/navPoint", id |-> <<>>, playOrder |-> 0, text |-> <<>>,
     src |-> <<>>, indent |-> indent]

\* writeTOCEntry returns the builder and the next playOrder
RECURSIVE writeTOCEntry(_, _, _, _), writeTOCEntries(_, _, _, _)
writeTOCEntries(builder, children, playOrder, indent) ==
    IF children = <<>> THEN [builder |-> builder, playOrder |-> playOrder]
    ELSE LET r == writeTOCEntry(builder, Head(children), playOrder, indent)
         IN  writeTOCEntries(r.builder, Tail(children), r.playOrder, indent)

writeTOCEntry_CountsPassThrough(builder, entry, playOrder, indent) ==
    IF entry.Title = <<>> /\ Len(entry.Children) = 0
    THEN [builder |-> builder, playOrder |-> playOrder]
    ELSE IF entry.Title # <<>>
    THEN LET open == Append(builder,
                         NavPoint(S_navpoint \o entry.ID, playOrder,
                                  EscapeString(entry.Title),
                                  S_contentFrag \o entry.ID, indent + 2))
             r    == writeTOCEntries(open, entry.Children, playOrder + 1,
                                     indent + 1)
         IN  [builder |-> Append(r.builder, NavPointEnd(indent + 2)),
              playOrder |-> r.playOrder]
    ELSE writeTOCEntries(builder, entry.Children, playOrder + 1, indent)

writeTOCEntry(builder, entry, playOrder, indent) ==
    IF entry.Title = <<>> /\ Len(entry.Children) = 0
    THEN [builder |-> builder, playOrder |-> playOrder]
    ELSE IF entry.Title # <<>>
    THEN LET open == Append(builder,
                         NavPoint(S_navpoint \o entry.ID, playOrder,
                                  EscapeString(entry.Title),
                                  S_contentFrag \o entry.ID, indent + 2))
             r    == writeTOCEntries(open, entry.Children, playOrder + 1,
                                     indent + 1)
         IN  [builder |-> Append(r.builder, NavPointEnd(indent + 2)),
              playOrder |-> r.playOrder]
    ELSE writeTOCEntries(builder, entry.Children, playOrder, indent)

RECURSIVE calculateTOCDepth(_, _)
calculateTOCDepth(tocEntries, currentDepth) ==
    IF tocEntries = <<>> THEN currentDepth
    ELSE LET depth == calculateTOCDepth(Head(tocEntries).Children,
                                        currentDepth + 1)
             rest  == calculateTOCDepth(Tail(tocEntries), currentDepth)
         IN  IF depth > rest THEN depth ELSE rest

\* the navMap of addTOCNCX: cover, content, then the section entries
navMapOf(tocEntries) ==
    writeTOCEntries(
        <<NavPoint(S_navpoint \o Itoa(1), 1, S_Cover, S_coverHref, 1),
          NavPointEnd(1),
          NavPoint(S_navpoint \o Itoa(2), 2, S_Content, S_contentHref, 1),
          NavPointEnd(1)>>,
        tocEntries, 3, 0).builder

\* the value substituted for dtb:depth
dtbDepth(tocEntries) ==
    LET maxDepth == calculateTOCDepth(tocEntries, 0)
    IN  (IF maxDepth < 1 THEN 1 ELSE maxDepth) + 1

(***************************************************************************)
(* nav.xhtml                                                               *)
(***************************************************************************)
NavItem(kind, href, text, indent) ==
    [kind |-> kind, href |-> href, text |-> text, indent |-> indent]

RECURSIVE writeNavEntry(_, _, _), writeNavEntries(_, _, _)
writeNavEntries(builder, children, indent) ==
    IF children = <<>> THEN builder
    ELSE writeNavEntries(writeNavEntry(builder, Head(children), indent),
                         Tail(children), indent)

writeNavEntry_LabelsPassThrough(builder, entry, indent) ==
    IF entry.Title = <<>> /\ Len(entry.Children) = 0 THEN builder
    ELSE LET open == Append(builder,
                         NavItem("li", S_contentFrag \o EscapeString(entry.ID),
                                 EscapeString(entry.Title), indent + 1))
         IN  IF Len(entry.Children) > 0
             THEN writeNavEntries(
                      Append(open, NavItem("ol", <<>>, <<>>, indent + 1)),
                      entry.Children, indent + 1)
                  \o <<NavItem("/ol", <<>>, <<>>, indent + 1),
                       NavItem("/li", <<>>, <<>>, indent + 1)>>
             ELSE Append(open, NavItem("/li", <<>>, <<>>, indent + 1))

writeNavEntry(builder, entry, indent) ==
    IF entry.Title = <<>> /\ Len(entry.Children) = 0 THEN builder
    ELSE IF entry.Title # <<>>
    THEN LET open == Append(builder,
                         NavItem("li", S_contentFrag \o EscapeString(entry.ID),
                                 EscapeString(entry.Title), indent + 1))
         IN  IF Len(entry.Children) > 0
             THEN writeNavEntries(
                      Append(open, NavItem("ol", <<>>, <<>>, indent + 1)),
                      entry.Children, indent + 1)
                  \o <<NavItem("/ol", <<>>, <<>>, indent + 1),
                       NavItem("/li", <<>>, <<>>, indent + 1)>>
             ELSE Append(open, NavItem("/li", <<>>, <<>>, indent + 1))
    ELSE writeNavEntries(builder, entry.Children, indent)

navListOf(tocEntries) ==
    writeNavEntries(
        <<NavItem("li", S_coverHref, S_Cover, 0),
          NavItem("/li", <<>>, <<>>, 0),
          NavItem("li", S_contentHref, S_Content, 0),
          NavItem("/li", <<>>, <<>>, 0)>>,
        tocEntries, 0)

(***************************************************************************)
(* content.xhtml: section renderer                                         *)
(***************************************************************************)
Element(kind, tag, id, text) ==
    [kind |-> kind, tag |-> tag, id |-> id, text |-> text]

headingTag_Uncapped(depth) ==
    <<"h">> \o Itoa(depth + 1)

\* level := depth + 1, capped at 6; tag := fmt.Sprintf("h%d", level)
headingTag(depth) ==
    <<"h">> \o Itoa(IF depth + 1 > 6 THEN 6 ELSE depth + 1)

sectionIDOf_IgnoresParent(parentID, sectionIndex) ==
    S_section \o Itoa(sectionIndex)

sectionIDOf(parentID, sectionIndex) ==
    IF parentID # <<>> THEN parentID \o S_sub \o Itoa(sectionIndex)
    ELSE S_section \o Itoa(sectionIndex)

RECURSIVE headings(_, _, _)
headings(paragraphs, tag, sectionID) ==
    IF paragraphs = <<>> THEN <<>>
    ELSE <<Element("heading", tag, EscapeString(sectionID),
                   processParagraph(Head(paragraphs), NilMap))>>
         \o headings(Tail(paragraphs), tag, sectionID)

RECURSIVE sectionParagraphs(_, _)
sectionParagraphs(ps, images) ==
    IF ps = <<>> THEN <<>>
    ELSE LET text == processParagraph(Head(ps), images)
         IN  (IF text # <<>> THEN <<Element("p", <<"p">>, <<>>, text)>>
              ELSE <<>>)
             \o sectionParagraphs(Tail(ps), images)

emptyLines(n) ==
    [i \in 1..n |-> Element("empty-line", <<"d", "i", "v">>, <<>>, <<>>)]

RECURSIVE verses(_)
verses(vs) ==
    IF vs = <<>> THEN <<>>
    ELSE <<Element("verse", <<"p">>, <<>>, EscapeString(Head(vs).Text))>>
         \o verses(Tail(vs))

RECURSIVE stanzas(_)
stanzas(ss) ==
    IF ss = <<>> THEN <<>>
    ELSE <<Element("stanza", <<"d", "i", "v">>, <<>>, <<>>)>>
         \o verses(Head(ss).Verse)
         \o <<Element("/stanza", <<"d", "i", "v">>, <<>>, <<>>)>>
         \o stanzas(Tail(ss))

RECURSIVE poemTitleText(_)
poemTitleText(ps) ==
    IF ps = <<>> THEN <<>>
    ELSE EscapeString(Head(ps).Text) \o poemTitleText(Tail(ps))

processPoem(poem) ==
    <<Element("poem", <<"d", "i", "v">>, <<>>, <<>>)>>
    \o (IF poem.Title.present
        THEN <<Element("poem-title", <<"h", "3">>, <<>>,
                       poemTitleText(poem.Title.Paragraph))>>
        ELSE <<>>)
    \o stanzas(poem.Stanza)
    \o <<Element("/poem", <<"d", "i", "v">>, <<>>, <<>>)>>

RECURSIVE citeParagraphs(_, _)
citeParagraphs(ps, images) ==
    IF ps = <<>> THEN <<>>
    ELSE <<Element("p", <<"p">>, <<>>, processParagraph(Head(ps), images))>>
         \o citeParagraphs(Tail(ps), images)

processCite(cite, images) ==
    <<Element("cite", <<"b", "l", "o", "c", "k", "q", "u", "o", "t", "e">>,
              <<>>, <<>>)>>
    \o citeParagraphs(cite.Paragraph, images)
    \o <<Element("/cite", <<"b", "l", "o", "c", "k", "q", "u", "o", "t", "e">>,
                 <<>>, <<>>)>>

RECURSIVE poems(_)
poems(ps) ==
    IF ps = <<>> THEN <<>> ELSE processPoem(Head(ps)) \o poems(Tail(ps))

RECURSIVE cites(_, _)
cites(cs, images) ==
    IF cs = <<>> THEN <<>>
    ELSE processCite(Head(cs), images) \o cites(Tail(cs), images)

\* what processSectionWithID appends to the builder
RECURSIVE processSectionWithID(_, _, _, _, _), nestedSections(_, _, _, _, _)
nestedSections(sections, i, depth, sectionID, images) ==
    IF i > Len(sections) THEN <<>>
    ELSE processSectionWithID(sections[i], depth + 1, i - 1, sectionID, images)
         \o nestedSections(sections, i + 1, depth, sectionID, images)

processSectionWithID_PoemsFirst(section, depth, sectionIndex, parentID, images) ==
    LET sectionID == sectionIDOf(parentID, sectionIndex)
    IN  (IF hasTitle(section)
         THEN headings(section.Title.Paragraph, headingTag(depth), sectionID)
         ELSE <<>>)
        \o sectionParagraphs(section.Paragraph, images)
        \o emptyLines(section.EmptyLine)
        \o poems(section.Poem)
        \o nestedSections(section.Section, 1, depth, sectionID, images)
        \o cites(section.Cite, images)

processSectionWithID(section, depth, sectionIndex, parentID, images) ==
    LET sectionID == sectionIDOf(parentID, sectionIndex)
    IN  (IF hasTitle(section)
         THEN headings(section.Title.Paragraph, headingTag(depth), sectionID)
         ELSE <<>>)
        \o sectionParagraphs(section.Paragraph, images)
        \o emptyLines(section.EmptyLine)
        \o nestedSections(section.Section, 1, depth, sectionID, images)
        \o poems(section.Poem)
        \o cites(section.Cite, images)

RECURSIVE bodyTitle(_, _)
bodyTitle(ps, images) ==
    IF ps = <<>> THEN <<>>
    ELSE <<Element("heading", <<"h", "1">>, <<>>,
                   processParagraph(Head(ps), images))>>
         \o bodyTitle(Tail(ps), images)

RECURSIVE bodySections(_, _, _)
bodySections(sections, i, images) ==
    IF i > Len(sections) THEN <<>>
    ELSE processSectionWithID(sections[i], 0, i - 1, <<>>, images)
         \o bodySections(sections, i + 1, images)

\* the body of content.xhtml written by addMainContent
mainContent(book, images) ==
    bodyTitle(book.Body.Title.Paragraph, images)
    \o bodySections(book.Body.Section, 1, images)

(***************************************************************************)
(* Documents the model is run on                                           *)
(***************************************************************************)
T_Chapter ==
    <<"C", "h">>

\* ordered forests of exactly n sections, every section titled or not
RECURSIVE ForestsOfSize(_)
ForestsOfSize(n) ==
    IF n = 0 THEN {<<>>}
    ELSE UNION {
           {<<Section(t, sub, <<>>)>> \o rest :
                t \in {NilTitle, Title(<<PlainParagraph(T_Chapter)>>)},
                sub \in ForestsOfSize(k - 1),
                rest \in ForestsOfSize(n - k)} : k \in 1..n}

\* a chain of n nested sections, titled according to the bits of `mask`
RECURSIVE Chain(_, _)
Chain(n, mask) ==
    IF n = 0 THEN <<>>
    ELSE <<Section(IF mask % 2 = 1 THEN Title(<<PlainParagraph(T_Chapter)>>)
                   ELSE NilTitle,
                   Chain(n - 1, mask \div 2), <<>>)>>

RECURSIVE Pow2(_)
Pow2(n) ==
    IF n = 0 THEN 1 ELSE 2 * Pow2(n - 1)

\* every section gets one paragraph whose text is its index path
RECURSIVE LabelSection(_, _), LabelSections(_, _, _)
LabelSections(sections, path, i) ==
    IF i > Len(sections) THEN <<>>
    ELSE <<LabelSection(sections[i], path \o Itoa(i - 1))>>
         \o LabelSections(sections, path, i + 1)

LabelSection(section, path) ==
    [section EXCEPT !.Paragraph = <<PlainParagraph(path)>>,
                    !.Section = LabelSections(section.Section, path, 1)]

T_Book ==
    <<"B", "&">>

BookOfSections(sections) ==
    FictionBook(T_Book, <<>>, <<>>, <<>>, LabelSections(sections, <<>>, 1),
                <<>>)

TreeBooks ==
    {BookOfSections(f) : f \in UNION {ForestsOfSize(n) : n \in 0..MaxNodes}}

ChainBooks ==
    {BookOfSections(Chain(n, mask)) :
        n \in 1..MaxChain, mask \in 0..(Pow2(MaxChain) - 1)}

\* section titles in every shape the parser can deliver
TitleShapes ==
    {NilTitle, Title(<<>>), Title(<<PlainParagraph(<<>>)>>),
     Title(<<PlainParagraph(<<"<">>)>>),
     Title(<<PlainParagraph(<<"A">>), PlainParagraph(<<"B">>)>>)}

TitleBooks ==
    {BookOfSections(<<Section(t1, <<Section(t2, <<>>, <<>>)>>, <<>>)>>) :
        t1 \in TitleShapes, t2 \in TitleShapes}

\* "QQ==" and "Qg==" decode to one byte each, "QQ=" does not decode; two
\* ids, and under the id "a" two content types and a payload that does not
\* decode
BinaryShapes ==
    {Binary(<<"a">>, S_imagePng, <<"Q", "Q", "=", "=">>),
     Binary(<<"a">>, S_imageJpeg, <<"Q", "g", "=", "=">>),
     Binary(<<"a">>, S_imagePng, <<"Q", "Q", "=">>),
     Binary(<<"b">>, S_imageJpeg, <<"Q", "g", "=", "=">>),
     Binary(<<"b">>, S_imagePng, <<"Q", "Q", "=">>)}

RECURSIVE BinaryLists(_)
BinaryLists(n) ==
    IF n = 0 THEN {<<>>}
    ELSE {<<>>} \cup {<<b>> \o rest : b \in BinaryShapes,
                                      rest \in BinaryLists(n - 1)}

BinaryBooks ==
    {FictionBook(T_Book, <<>>, <<>>, <<>>,
                 <<Section(NilTitle, <<>>,
                           <<Paragraph(<<"x">>, <<>>, <<>>,
                                       <<Image(<<"#", "a">>)>>, <<>>)>>)>>,
                 bs) : bs \in BinaryLists(MaxBinaries)}

\* the name fields of an <author>, each empty or not
AuthorShapes ==
    {Author(first, middle, last, nick) :
        first \in {<<>>, <<"F">>}, middle \in {<<>>, <<"M">>},
        last \in {<<>>, <<"&">>}, nick \in {<<>>, <<"N">>}}

\* the authors that lists of several authors are made of: without any
\* name, with a nickname only, with two name parts and a nickname, and with
\* all three name parts
ListedAuthorShapes ==
    {Author(<<>>, <<>>, <<>>, <<>>), Author(<<>>, <<>>, <<>>, <<"N">>),
     Author(<<"F">>, <<>>, <<"&">>, <<"N">>),
     Author(<<"F">>, <<"M">>, <<"&">>, <<>>)}

RECURSIVE AuthorLists(_)
AuthorLists(n) ==
    IF n = 0 THEN {<<>>}
    ELSE {<<>>} \cup {<<a>> \o rest : a \in ListedAuthorShapes,
                                      rest \in AuthorLists(n - 1)}

\* <title-info> with and without book-title and lang, with one author of
\* every shape and with up to MaxAuthors authors
MetadataBooks ==
    {FictionBook(m[1], authors, m[2], <<>>, <<>>, <<>>) :
        m \in {<<<<>>, <<>>>>, <<T_Book, <<"r", "u">>>>},
        authors \in AuthorLists(MaxAuthors)
                        \cup {<<a>> : a \in AuthorShapes}}

\* a section with a title, a paragraph, an empty line, a poem and a
\* citation, nested in the sections of ContentBooks
T_InnerSection ==
    [Title |-> Title(<<PlainParagraph(<<"t">>)>>), Section |-> <<>>,
     Paragraph |-> <<PlainParagraph(<<"q">>)>>,
     Poem |-> <<Poem(NilTitle, <<Stanza(<<Verse(<<"w">>)>>)>>)>>,
     Cite |-> <<Cite(<<PlainParagraph(<<"d">>)>>)>>, EmptyLine |-> 1]

\* documents with and without a body title, whose section has or lacks
\* each kind of content: title, paragraph (with or without text), empty
\* line, nested section, poem, citation (of a paragraph with or without
\* text)
ContentBooks ==
    {FictionBook(T_Book, <<>>, <<>>, bt,
                 <<[Title |-> t, Section |-> sub, Paragraph |-> ps,
                    Poem |-> poem, Cite |-> cite, EmptyLine |-> el]>>,
                 <<>>) :
        bt \in {<<>>, <<PlainParagraph(<<"B">>)>>},
        t \in {NilTitle, Title(<<PlainParagraph(<<"T">>)>>)},
        sub \in {<<>>, <<T_InnerSection>>},
        ps \in {<<>>, <<PlainParagraph(<<"p">>)>>, <<PlainParagraph(<<>>)>>},
        poem \in {<<>>, <<Poem(Title(<<PlainParagraph(<<"P">>)>>),
                              <<Stanza(<<Verse(<<"v">>)>>)>>)>>},
        cite \in {<<>>, <<Cite(<<PlainParagraph(<<"c">>)>>)>>,
                  <<Cite(<<PlainParagraph(<<>>)>>)>>},
        el \in {0, 1}}

\* documents whose section shows the image "a" in its title or not, and the
\* image "a" or "c" in its paragraph, with the binary "a" missing, a PNG or
\* a JPEG
ImageBooks ==
    {FictionBook(T_Book, <<>>, <<>>, <<>>,
                 <<Section(t, <<>>,
                           <<Paragraph(<<"x">>, <<>>, <<>>,
                                       <<Image(href)>>, <<>>)>>)>>,
                 bs) :
        t \in {NilTitle,
               Title(<<Paragraph(<<"T">>, <<>>, <<>>,
                                 <<Image(<<"#", "a">>)>>, <<>>)>>)},
        href \in {<<"#", "a">>, <<"#", "c">>},
        bs \in {<<>>,
                <<Binary(<<"a">>, S_imagePng, <<"Q", "Q", "=", "=">>)>>,
                <<Binary(<<"a">>, S_imageJpeg, <<"Q", "g", "=", "=">>)>>}}

\* documents whose binaries carry the id of a fixed part of the package
NamedBinaryBooks ==
    {FictionBook(T_Book, <<>>, <<>>, <<>>, <<>>, bs) :
        bs \in {<<Binary(id, S_imagePng, <<"Q", "Q", "=", "=">>)>> :
                    id \in {S_ncx, S_nav, S_cover, S_content}}
                \cup {<<Binary(S_cover, S_imagePng, <<"Q", "Q", "=", "=">>),
                        Binary(S_cover, S_imageJpeg,
                               <<"Q", "g", "=", "=">>)>>}}

Books ==
    TreeBooks \cup ChainBooks \cup TitleBooks \cup BinaryBooks
        \cup MetadataBooks \cup ContentBooks \cup ImageBooks
        \cup NamedBinaryBooks

(***************************************************************************)
(* GenerateEPUB                                                            *)
(***************************************************************************)
NoError ==
    "nil"

UUIDs ==
    {<<"u", "1">>, <<"u", "2">>}

Dates ==
    {<<"2", "0", "2", "6", "-", "0", "1", "-", "0", "2">>}

Header(name, method) ==
    [Name |-> name, Method |-> method]

mimetypeHeader_Deflate ==
    Header(S_mimetype, "Deflate")

\* zip.FileHeader of addMimetype
mimetypeHeader ==
    Header(S_mimetype, "Store")

\* writer.Create(name): the default method of archive/zip
createHeader(name) ==
    Header(name, "Deflate")

Entry(header, written, data) ==
    [Name |-> header.Name, Method |-> header.Method, Written |-> written,
     Data |-> data]

\* no concurrent call or goroutine has been started
HandlersIdle ==
    /\ conversionJobs = <<>>
    /\ completedJobCount = 0
    /\ cleanupMutex = "free"
    /\ tempDir = <<>>
    /\ outputs = {}
    /\ now = 0
    /\ issued = 0
    /\ workers = <<>>
    /\ cleanup = [waiting |-> 0, entries |-> {}, now |-> 0]
    /\ cleanupsStarted = 0
    /\ handling = [pc |-> "none"]

ServiceIdle ==
    calls = <<>> /\ HandlersIdle

Init ==
    /\ pc = "MkdirAll"
    /\ fb2 \in Books
    /\ entries = <<>>
    /\ imageMap = NilMap
    /\ pending = {}
    /\ err = NoError
    /\ closed = "open"
    /\ para = PlainParagraph(<<>>)
    /\ result = <<>>
    /\ input = <<>>
    /\ parsed = [book |-> <<>>, err |-> NoError]
    /\ ServiceIdle

\* lines 26-29
MkdirAll ==
    /\ pc = "MkdirAll"
    /\ \/ pc' = "Create" /\ err' = err
       \/ pc' = "done" /\ err' = "failed to create output directory"
    /\ UNCHANGED <<fb2, entries, imageMap, pending, closed, para, result,
                   input, parsed>>
    /\ UNCHANGED serviceVars

\* lines 32-48: on success both deferred Close calls are registered
CreateFile ==
    /\ pc = "Create"
    /\ \/ pc' = "addMimetype" /\ err' = err
       \/ pc' = "done" /\ err' = "failed to create EPUB file"
    /\ UNCHANGED <<fb2, entries, imageMap, pending, closed, para, result,
                   input, parsed>>
    /\ UNCHANGED serviceVars

\* writer.Create / CreateHeader followed by w.Write; an error of either is
\* returned by the add* function and then by GenerateEPUB
AddEntry(header, data, next, createErr, writeErr) ==
    \/ /\ entries' = entries
       /\ err' = createErr
       /\ pc' = "return"
    \/ /\ entries' = Append(entries, Entry(header, FALSE, <<>>))
       /\ err' = writeErr
       /\ pc' = "return"
    \/ /\ entries' = Append(entries, Entry(header, TRUE, data))
       /\ err' = err
       /\ pc' = next

addMimetype ==
    /\ pc = "addMimetype"
    /\ AddEntry(mimetypeHeader, S_mimetypeBody, "addContainer",
                "create failed", "write failed")
    /\ UNCHANGED <<fb2, imageMap, pending, closed, para, result, input, parsed>>
    /\ UNCHANGED serviceVars

addContainer ==
    /\ pc = "addContainer"
    /\ AddEntry(createHeader(S_container), [rootfile |-> S_contentOPF],
                "collectImages", "create failed", "write failed")
    /\ UNCHANGED <<fb2, imageMap, pending, closed, para, result, input, parsed>>
    /\ UNCHANGED serviceVars

CollectImages ==
    /\ pc = "collectImages"
    /\ imageMap' = collectImages(fb2)
    /\ pc' = "addContentOPF"
    /\ UNCHANGED <<fb2, entries, pending, err, closed, para, result, input,
                   parsed>>
    /\ UNCHANGED serviceVars

buildAuthorName_NicknameFirst(author) ==
    LET parts == (IF author.FirstName # <<>> THEN <<author.FirstName>>
                  ELSE <<>>)
                 \o (IF author.MiddleName # <<>> THEN <<author.MiddleName>>
                     ELSE <<>>)
                 \o (IF author.LastName # <<>> THEN <<author.LastName>>
                     ELSE <<>>)
    IN  IF author.Nickname # <<>> THEN author.Nickname
        ELSE Join(parts, <<" ">>)

buildAuthorName(author) ==
    LET parts == (IF author.FirstName # <<>> THEN <<author.FirstName>>
                  ELSE <<>>)
                 \o (IF author.MiddleName # <<>> THEN <<author.MiddleName>>
                     ELSE <<>>)
                 \o (IF author.LastName # <<>> THEN <<author.LastName>>
                     ELSE <<>>)
    IN  IF Len(parts) = 0 /\ author.Nickname # <<>> THEN author.Nickname
        ELSE Join(parts, <<" ">>)

RECURSIVE authorNames(_)
authorNames(authors) ==
    IF authors = <<>> THEN <<>>
    ELSE LET name == buildAuthorName(Head(authors))
         IN  (IF name # <<>> THEN <<name>> ELSE <<>>)
             \o authorNames(Tail(authors))

authorStrOf(book) ==
    LET joined == Join(authorNames(book.Description.TitleInfo.Author),
                       <<",", " ">>)
    IN  IF joined = <<>> THEN S_Unknown ELSE joined

titleOf(book) ==
    IF book.Description.TitleInfo.BookTitle = <<>> THEN S_Untitled
    ELSE book.Description.TitleInfo.BookTitle

langOf(book) ==
    IF book.Description.TitleInfo.Lang = <<>> THEN S_en
    ELSE book.Description.TitleInfo.Lang

Item(id, href, mediaType, properties) ==
    [id |-> id, href |-> href, mediaType |-> mediaType,
     properties |-> properties]

staticItems ==
    <<Item(S_ncx, S_tocHref, S_mediaNCX, S_nav),
      Item(S_nav, S_navHref, S_mediaXHTML, S_nav),
      Item(S_cover, S_coverHref, S_mediaXHTML, <<>>),
      Item(S_content, S_contentHref, S_mediaXHTML, <<>>)>>

imageItem_AlwaysJpg(imgID, imgInfo) ==
    Item(imgID, S_images \o imgID \o S_jpg, imgInfo.ContentType, <<>>)

\* the <item> appended for one key of imageMap
imageItem(imgID, imgInfo) ==
    Item(imgID, S_images \o imgID \o getImageExtension(imgInfo.ContentType),
         imgInfo.ContentType, <<>>)

\* the orders in which a range loop may visit the keys of a map
Orders(keys) ==
    {o \in [1..Cardinality(keys) -> keys] :
        \A i, j \in 1..Cardinality(keys) : o[i] = o[j] => i = j}

manifestItems(images, order) ==
    staticItems \o [i \in 1..Len(order) |-> imageItem(order[i],
                                                      images.m[order[i]])]

spineOf ==
    <<S_cover, S_content>>

contentOPF(book, images, order, uuid, date) ==
    [title |-> EscapeString(titleOf(book)),
     creator |-> EscapeString(authorStrOf(book)),
     language |-> langOf(book),
     identifier |-> S_urnuuid \o uuid,
     modified |-> date,
     manifest |-> manifestItems(images, order),
     spine |-> spineOf]

tocNCX(book, uuid) ==
    [uid |-> S_urnuuid \o uuid,
     depth |-> dtbDepth(buildTOC(book)),
     docTitle |-> EscapeString(titleOf(book)),
     navMap |-> navMapOf(buildTOC(book))]

navXHTML(book) ==
    [navList |-> navListOf(buildTOC(book))]

coverPage(book) ==
    [title |-> EscapeString(titleOf(book)),
     h1 |-> EscapeString(titleOf(book)),
     h2 |-> EscapeString(authorStrOf(book))]

imagePath_AlwaysJpg(imgID, imgInfo) ==
    S_imagesDir \o imgID \o S_jpg

\* fmt.Sprintf("OEBPS/images/%s%s", imgID, ext)
imagePath(imgID, imgInfo) ==
    S_imagesDir \o imgID \o getImageExtension(imgInfo.ContentType)

addContentOPF ==
    /\ pc = "addContentOPF"
    /\ \E uuid \in UUIDs, date \in Dates, order \in Orders(DOMAIN imageMap.m) :
          AddEntry(createHeader(S_contentOPF),
                   contentOPF(fb2, imageMap, order, uuid, date),
                   "addTOCNCX", "create failed", "write failed")
    /\ UNCHANGED <<fb2, imageMap, pending, closed, para, result, input, parsed>>
    /\ UNCHANGED serviceVars

addTOCNCX ==
    /\ pc = "addTOCNCX"
    /\ \E uuid \in UUIDs :
          AddEntry(createHeader(S_tocNCX), tocNCX(fb2, uuid), "addNavXHTML",
                   "create failed", "write failed")
    /\ UNCHANGED <<fb2, imageMap, pending, closed, para, result, input, parsed>>
    /\ UNCHANGED serviceVars

addNavXHTML ==
    /\ pc = "addNavXHTML"
    /\ AddEntry(createHeader(S_navXHTML), navXHTML(fb2), "addCoverPage",
                "create failed", "write failed")
    /\ UNCHANGED <<fb2, imageMap, pending, closed, para, result, input, parsed>>
    /\ UNCHANGED serviceVars

addCoverPage ==
    /\ pc = "addCoverPage"
    /\ AddEntry(createHeader(S_coverXHTML), coverPage(fb2), "addMainContent",
                "create failed", "write failed")
    /\ UNCHANGED <<fb2, imageMap, pending, closed, para, result, input, parsed>>
    /\ UNCHANGED serviceVars

\* on success the range loop of addBinaryResources starts over imageMap
addMainContent ==
    /\ pc = "addMainContent"
    /\ AddEntry(createHeader(S_contentXHTML),
                [body |-> mainContent(fb2, imageMap)],
                "addBinaryResources", "create failed", "write failed")
    /\ pending' = IF pc' = "addBinaryResources" THEN DOMAIN imageMap.m ELSE {}
    /\ UNCHANGED <<fb2, imageMap, closed, para, result, input, parsed>>
    /\ UNCHANGED serviceVars

\* one iteration of the loop of addBinaryResources
addBinaryResources ==
    /\ pc = "addBinaryResources"
    /\ \E imgID \in pending :
          /\ AddEntry(createHeader(imagePath(imgID, imageMap.m[imgID])),
                      imageMap.m[imgID].Data, "addBinaryResources",
                      "failed to create image file",
                      "failed to write image data")
          /\ pending' = pending \ {imgID}
    /\ UNCHANGED <<fb2, imageMap, closed, para, result, input, parsed>>
    /\ UNCHANGED serviceVars

\* return nil
Return ==
    /\ pc = "addBinaryResources"
    /\ pending = {}
    /\ pc' = "return"
    /\ UNCHANGED <<fb2, entries, imageMap, pending, err, closed, para, result,
                   input, parsed>>
    /\ UNCHANGED serviceVars

\* the deferred zipWriter.Close and file.Close; their errors are dropped
DeferredClose ==
    /\ pc = "return"
    /\ closed' \in {"closed", "zip close failed", "file close failed"}
    /\ pc' = "done"
    /\ UNCHANGED <<fb2, entries, imageMap, pending, err, para, result, input,
                   parsed>>
    /\ UNCHANGED serviceVars

Next ==
    \/ MkdirAll
    \/ CreateFile
    \/ addMimetype
    \/ addContainer
    \/ CollectImages
    \/ addContentOPF
    \/ addTOCNCX
    \/ addNavXHTML
    \/ addCoverPage
    \/ addMainContent
    \/ addBinaryResources
    \/ Return
    \/ DeferredClose

Spec ==
    Init /\ [][Next]_vars

(***************************************************************************)
(* processParagraph on its own, one loop of the function per step          *)
(***************************************************************************)
Alphabet ==
    {"a", "&", "<"}

RECURSIVE TextsUpTo(_)
TextsUpTo(n) ==
    IF n = 0 THEN {<<>>}
    ELSE TextsUpTo(n - 1)
         \cup {<<c>> \o t : c \in Alphabet, t \in TextsUpTo(n - 1)}

LinkShapes ==
    {Link(<<"h">>, text) : text \in {<<>>, <<"a">>, <<"&">>, <<"a", "<">>}}

LinkLists ==
    {<<>>} \cup {<<l>> : l \in LinkShapes}
    \cup {<<l1, l2>> : l1 \in LinkShapes, l2 \in LinkShapes}

StrongLists ==
    {<<>>,
     <<Strong(<<"a">>, <<>>, <<>>, <<>>)>>,
     <<Strong(<<>>, <<>>, <<>>, <<>>)>>,
     <<Strong(<<"a", "&">>, <<>>, <<>>, <<Link(<<"h">>, <<"a">>)>>)>>,
     <<Strong(<<>>, <<>>, <<Emphasis(<<"<">>, <<>>, <<>>, <<>>)>>, <<>>)>>}

EmphasisLists ==
    {<<>>,
     <<Emphasis(<<"&">>, <<>>, <<>>, <<>>)>>,
     <<Emphasis(<<"a">>, <<Strong(<<"a">>, <<>>, <<>>, <<>>)>>, <<>>, <<>>)>>,
     <<Emphasis(<<>>, <<>>, <<>>, <<Link(<<"<">>, <<>>)>>)>>}

ImageLists ==
    {<<>>, <<Image(<<"#", "a">>)>>, <<Image(<<"#", "<">>)>>}

Paragraphs ==
    {Paragraph(text, strong, emphasis, image, link) :
        text \in TextsUpTo(MaxTextLen), strong \in StrongLists,
        emphasis \in EmphasisLists, image \in ImageLists,
        link \in LinkLists}

\* the imageMap argument: nil for titles, the collected images otherwise
ImageMaps ==
    {NilMap,
     MakeMap(MapSet(<<>>, <<"a">>, ImageInfo(S_imagePng, <<65>>)))}

InitParagraph ==
    /\ pc = "processParagraph"
    /\ para \in Paragraphs
    /\ imageMap \in ImageMaps
    /\ result = <<>>
    /\ fb2 = FictionBook(<<>>, <<>>, <<>>, <<>>, <<>>, <<>>)
    /\ entries = <<>>
    /\ pending = {}
    /\ err = NoError
    /\ closed = "open"
    /\ input = <<>>
    /\ parsed = [book |-> <<>>, err |-> NoError]
    /\ ServiceIdle

\* lines 544-547
WriteText ==
    /\ pc = "processParagraph"
    /\ result' = EscapeString(para.Text)
    /\ pc' = "links"
    /\ UNCHANGED <<fb2, entries, imageMap, pending, err, closed, para, input,
                   parsed>>
    /\ UNCHANGED serviceVars

\* lines 553-571
ProcessLinks ==
    /\ pc = "links"
    /\ result' = paragraphLinks(result, para.Link)
    /\ pc' = "strong"
    /\ UNCHANGED <<fb2, entries, imageMap, pending, err, closed, para, input,
                   parsed>>
    /\ UNCHANGED serviceVars

\* lines 573-594
ProcessStrongs ==
    /\ pc = "strong"
    /\ result' = paragraphStrongs(result, para.Strong)
    /\ pc' = "emphasis"
    /\ UNCHANGED <<fb2, entries, imageMap, pending, err, closed, para, input,
                   parsed>>
    /\ UNCHANGED serviceVars

\* lines 596-617
ProcessEmphases ==
    /\ pc = "emphasis"
    /\ result' = paragraphEmphases(result, para.Emphasis)
    /\ pc' = "images"
    /\ UNCHANGED <<fb2, entries, imageMap, pending, err, closed, para, input,
                   parsed>>
    /\ UNCHANGED serviceVars

\* lines 619-638: after the images the builder's string is returned
ProcessImages ==
    /\ pc = "images"
    /\ result' = paragraphImages(result, para.Image, imageMap)
    /\ pc' = "returned"
    /\ UNCHANGED <<fb2, entries, imageMap, pending, err, closed, para, input,
                   parsed>>
    /\ UNCHANGED serviceVars

NextParagraph ==
    \/ WriteText
    \/ ProcessLinks
    \/ ProcessStrongs
    \/ ProcessEmphases
    \/ ProcessImages

SpecParagraph ==
    InitParagraph /\ [][NextParagraph]_vars

(***************************************************************************)
(* converter/fb2parser.go: the input is the token stream that the          *)
(* encoding/xml decoder reads from the file or reader                      *)
(***************************************************************************)
StartElement(name) ==
    [kind |-> "start", name |-> name]

EndElement(name) ==
    [kind |-> "end", name |-> name]

CharData ==
    [kind |-> "chardata", name |-> ""]

Malformed ==
    [kind |-> "malformed", name |-> ""]

ElementNames ==
    {"FictionBook", "body", "section", "x"}

Tokens ==
    {CharData, Malformed}
    \cup {StartElement(n) : n \in ElementNames}
    \cup {EndElement(n) : n \in ElementNames}

RECURSIVE TokensUpTo(_)
TokensUpTo(n) ==
    IF n = 0 THEN {<<>>}
    ELSE TokensUpTo(n - 1)
         \cup {<<t>> \o rest : t \in Tokens, rest \in TokensUpTo(n - 1)}

\* the tokens of a document with the given sections
RECURSIVE SectionTokens(_)
SectionTokens(sections) ==
    IF sections = <<>> THEN <<>>
    ELSE <<StartElement("section")>> \o SectionTokens(Head(sections).Section)
         \o <<EndElement("section")>> \o SectionTokens(Tail(sections))

DocumentTokens(sections) ==
    <<CharData, StartElement("FictionBook"), StartElement("body")>>
    \o SectionTokens(sections)
    \o <<EndElement("body"), EndElement("FictionBook"), CharData>>

\* whole and truncated files of small documents, and all short inputs
Prefixes(s) ==
    {SubSeq(s, 1, n) : n \in 0..Len(s)}

Inputs ==
    TokensUpTo(MaxTokens)
    \cup UNION {Prefixes(DocumentTokens(f)) :
                  f \in ForestsOfSize(0) \cup ForestsOfSize(1)
                        \cup ForestsOfSize(2)}

ParseResult(book, error) ==
    [book |-> book, err |-> error]

Node(name, kids) ==
    [name |-> name, kids |-> kids]

\* Decoder.Token inside an open element `name`: children are read up to
\* the matching end element; the input ending first is a syntax error
RECURSIVE unmarshalChildren(_, _, _)
unmarshalChildren(name, kids, tokens) ==
    IF tokens = <<>>
    THEN [err |-> "XML syntax error: unexpected EOF", node |-> Node(name, kids),
          rest |-> <<>>]
    ELSE LET t == Head(tokens)
         IN  CASE t.kind = "malformed" ->
                    [err |-> "XML syntax error", node |-> Node(name, kids),
                     rest |-> <<>>]
               [] t.kind = "chardata" ->
                    unmarshalChildren(name, kids, Tail(tokens))
               [] t.kind = "end" ->
                    IF t.name = name
                    THEN [err |-> NoError, node |-> Node(name, kids),
                          rest |-> Tail(tokens)]
                    ELSE [err |-> "XML syntax error", node |-> Node(name, kids),
                          rest |-> <<>>]
               [] t.kind = "start" ->
                    LET r == unmarshalChildren(t.name, <<>>, Tail(tokens))
                    IN  IF r.err # NoError THEN r
                        ELSE unmarshalChildren(name, Append(kids, r.node),
                                               r.rest)

\* models.Section from a <section> element: its <section> children
RECURSIVE sectionsOfNode(_)
sectionsOfNode(kids) ==
    IF kids = <<>> THEN <<>>
    ELSE (IF Head(kids).name = "section"
          THEN <<Section(NilTitle, sectionsOfNode(Head(kids).kids), <<>>)>>
          ELSE <<>>)
         \o sectionsOfNode(Tail(kids))

\* models.Body: every <body> child fills the same Body value
RECURSIVE bodySectionsOfNode(_)
bodySectionsOfNode(kids) ==
    IF kids = <<>> THEN <<>>
    ELSE (IF Head(kids).name = "body" THEN sectionsOfNode(Head(kids).kids)
          ELSE <<>>)
         \o bodySectionsOfNode(Tail(kids))

bookOfNode(node) ==
    FictionBook(<<>>, <<>>, <<>>, <<>>, bodySectionsOfNode(node.kids), <<>>)

decode_EOFIsEmptyBook(tokens) ==
    IF tokens = <<>>
    THEN [err |-> NoError, node |-> Node("FictionBook", <<>>), rest |-> <<>>]
    ELSE [err |-> "EOF", node |-> Node("", <<>>), rest |-> <<>>]

\* decoder.Decode(&fb2): tokens are skipped up to the first start element,
\* which must be FictionBook; the end of the input before it is io.EOF
RECURSIVE decode(_)
decode(tokens) ==
    IF tokens = <<>>
    THEN [err |-> "EOF", node |-> Node("", <<>>), rest |-> <<>>]
    ELSE LET t == Head(tokens)
         IN  CASE t.kind = "chardata" -> decode(Tail(tokens))
               [] t.kind = "malformed" \/ t.kind = "end" ->
                    [err |-> "XML syntax error", node |-> Node("", <<>>),
                     rest |-> <<>>]
               [] t.kind = "start" ->
                    IF t.name # "FictionBook"
                    THEN [err |-> "expected element type <FictionBook>",
                          node |-> Node("", <<>>), rest |-> <<>>]
                    ELSE unmarshalChildren(t.name, <<>>, Tail(tokens))

\* lines 41-52 (and 24-36 of ParseFB2)
parseFromReader(tokens) ==
    LET r == decode(tokens)
    IN  IF r.err # NoError
        THEN ParseResult(<<>>, "failed to parse FB2 XML: " \o r.err)
        ELSE ParseResult(<<bookOfNode(r.node)>>, NoError)

InitParse ==
    /\ pc \in {"ParseFB2", "ParseFB2FromReader"}
    /\ input \in Inputs
    /\ parsed = ParseResult(<<>>, NoError)
    /\ fb2 = FictionBook(<<>>, <<>>, <<>>, <<>>, <<>>, <<>>)
    /\ entries = <<>>
    /\ imageMap = NilMap
    /\ pending = {}
    /\ err = NoError
    /\ closed = "open"
    /\ para = PlainParagraph(<<>>)
    /\ result = <<>>
    /\ ServiceIdle

\* ParseFB2, lines 14-22: os.Open
OpenFile ==
    /\ pc = "ParseFB2"
    /\ \/ pc' = "Decode" /\ parsed' = parsed
       \/ pc' = "parsed" /\ parsed' = ParseResult(<<>>, "failed to open file")
    /\ UNCHANGED <<fb2, entries, imageMap, pending, err, closed, para, result,
                   input>>
    /\ UNCHANGED serviceVars

\* ParseFB2, lines 24-36
DecodeFile ==
    /\ pc = "Decode"
    /\ parsed' = parseFromReader(input)
    /\ pc' = "parsed"
    /\ UNCHANGED <<fb2, entries, imageMap, pending, err, closed, para, result,
                   input>>
    /\ UNCHANGED serviceVars

ParseFB2FromReader ==
    /\ pc = "ParseFB2FromReader"
    /\ parsed' = parseFromReader(input)
    /\ pc' = "parsed"
    /\ UNCHANGED <<fb2, entries, imageMap, pending, err, closed, para, result,
                   input>>
    /\ UNCHANGED serviceVars

NextParse ==
    \/ OpenFile
    \/ DecodeFile
    \/ ParseFB2FromReader

SpecParse ==
    InitParse /\ [][NextParse]_vars

(***************************************************************************)
(* Properties                                                              *)
(***************************************************************************)
\* GenerateEPUB has returned nil
Succeeded ==
    pc \in {"return", "done"} /\ err = NoError

\* the decoded binaries of the document, by index
DecodedBinaries ==
    {i \in 1..Len(fb2.Binary) : DecodeString(fb2.Binary[i].Data).ok}

L_mimetypeBytes ==
    <<"a", "p", "p", "l", "i", "c", "a", "t", "i", "o", "n", "/",
      "e", "p", "u", "b", "+", "z", "i", "p">>

\* C1: the first entry of the archive is "mimetype", stored, and once its
\* write has succeeded its bytes are application/epub+zip; nothing is
\* created before it, so a second entry exists only after that write.
C1_MimetypeFirst ==
    Len(entries) >= 1 =>
        /\ entries[1].Name = <<"m", "i", "m", "e", "t", "y", "p", "e">>
        /\ entries[1].Method = "Store"
        /\ (entries[1].Written => entries[1].Data = L_mimetypeBytes)
        /\ (Len(entries) >= 2 \/ Succeeded => entries[1].Written)

C1_Witness ==
    /\ pc = "done" /\ err = NoError /\ closed = "closed"
    /\ Len(entries) = 9
    /\ entries[1].Written

L_FixedEntries ==
    <<S_mimetype, S_container, S_contentOPF, S_tocNCX, S_navXHTML,
      S_coverXHTML, S_contentXHTML>>

L_PathOfBinary(binary) ==
    S_imagesDir \o binary.ID \o getImageExtension(binary.ContentType)

ImageEntryNames ==
    {entries[i].Name : i \in 8..Len(entries)}

\* C2 as stated: after a successful call the seven fixed entries come
\* first, in order, followed by one image entry per decoded binary.
C2_OnePerDecodedBinary ==
    Succeeded =>
        /\ Len(entries) >= 7
        /\ \A i \in 1..7 : entries[i].Name = L_FixedEntries[i]
        /\ Len(entries) = 7 + Cardinality(DecodedBinaries)
        /\ \A i \in DecodedBinaries :
              L_PathOfBinary(fb2.Binary[i]) \in ImageEntryNames

\* the last decoded binary carrying the id of binary i
LastDecodedWithID(i) ==
    CHOOSE j \in DecodedBinaries :
        /\ fb2.Binary[j].ID = fb2.Binary[i].ID
        /\ \A k \in DecodedBinaries :
              fb2.Binary[k].ID = fb2.Binary[i].ID => k <= j

\* C2 (amended): after a successful call the seven fixed entries come
\* first, in order, followed by one image entry per distinct id among the
\* decoded binaries, named after the last decoded binary with that id.
C2_FixedOrderThenImages ==
    Succeeded =>
        /\ Len(entries) >= 7
        /\ \A i \in 1..7 : entries[i].Name = L_FixedEntries[i]
        /\ \A i \in 1..Len(entries) : entries[i].Written
        /\ Len(entries) = 7 + Cardinality({fb2.Binary[i].ID :
                                              i \in DecodedBinaries})
        /\ \A i \in DecodedBinaries :
              L_PathOfBinary(fb2.Binary[LastDecodedWithID(i)])
                  \in ImageEntryNames

C2_Witness ==
    /\ Succeeded /\ pc = "done"
    /\ \E i, j \in DecodedBinaries :
          /\ i < j
          /\ fb2.Binary[i].ID = fb2.Binary[j].ID
          /\ fb2.Binary[i].ContentType # fb2.Binary[j].ContentType
    /\ Len(entries) = 8

L_Extensions ==
    {S_jpg, S_png, S_gif, S_webp, S_svg}

ImageEntries ==
    {i \in 1..Len(entries) : HasPrefixAt(entries[i].Name, S_imagesDir, 1)}

Manifest ==
    entries[3].Data.manifest

ManifestImageItems ==
    {k \in 1..Len(Manifest) : HasPrefixAt(Manifest[k].href, S_images, 1)}

\* manifest item k declares the archive entry i: its href, resolved against
\* OEBPS/, is the entry name and has the form images/<id><ext>
Declares(k, i) ==
    /\ <<"O", "E", "B", "P", "S", "/">> \o Manifest[k].href = entries[i].Name
    /\ \E ext \in L_Extensions :
          Manifest[k].href = S_images \o Manifest[k].id \o ext

\* C3: in a generated archive every image entry is declared by exactly one
\* manifest image item and every manifest image item declares exactly one
\* image entry.
C3_ManifestMatchesImages ==
    Succeeded =>
        /\ \A i \in ImageEntries :
              Cardinality({k \in ManifestImageItems : Declares(k, i)}) = 1
        /\ \A k \in ManifestImageItems :
              Cardinality({i \in ImageEntries : Declares(k, i)}) = 1

C3_Witness ==
    /\ Succeeded /\ pc = "done"
    /\ Cardinality(ImageEntries) = 2
    /\ Cardinality(ManifestImageItems) = 2
    /\ \E i, j \in ImageEntries : entries[i].Method = "Deflate"
          /\ ~HasPrefixAt(entries[i].Name, entries[j].Name, 1)
\* a section is titled when it has a title with at least one text block
Titled(section) ==
    section.Title.present /\ Len(section.Title.Paragraph) > 0

\* the sections of a list in document order, each with the id of its index
\* path: section-<i>, with -sub-<j> appended per nesting level
RECURSIVE Preorder(_, _, _)
Preorder(sections, parent, i) ==
    IF i > Len(sections) THEN <<>>
    ELSE LET id == IF parent = <<>> THEN S_section \o Itoa(i - 1)
                   ELSE parent \o S_sub \o Itoa(i - 1)
         IN  <<[id |-> id, section |-> sections[i]]>>
             \o Preorder(sections[i].Section, id, 1)
             \o Preorder(sections, parent, i + 1)

AllSections ==
    Preorder(fb2.Body.Section, <<>>, 1)

IDsOf(seq) ==
    [k \in 1..Len(seq) |-> seq[k].id]

TitledIDs ==
    IDsOf(SelectSeq(AllSections, LAMBDA s : Titled(s.section)))

HasTitledDescendant(section) ==
    \E k \in 1..Len(Preorder(section.Section, <<"-">>, 1)) :
        Titled(Preorder(section.Section, <<"-">>, 1)[k].section)

NavMap ==
    entries[4].Data.navMap

NavList ==
    entries[5].Data.navList

ContentBody ==
    entries[7].Data.body

Fragment(src) ==
    SubSeq(src, Len(S_contentFrag) + 1, Len(src))

FragmentsOf(seq) ==
    [k \in 1..Len(seq) |-> Fragment(seq[k])]

\* the fragments of the <content src="content.xhtml#..."/> of toc.ncx
NcxFragments ==
    LET pts == SelectSeq(NavMap, LAMBDA e : e.kind = "navPoint"
                            /\ HasPrefixAt(e.src, S_contentFrag, 1))
    IN  FragmentsOf([k \in 1..Len(pts) |-> pts[k].src])

\* the fragments of the <a href="content.xhtml#..."> of nav.xhtml
NavFragments ==
    LET lis == SelectSeq(NavList, LAMBDA e : e.kind = "li"
                            /\ HasPrefixAt(e.href, S_contentFrag, 1))
    IN  FragmentsOf([k \in 1..Len(lis) |-> lis[k].href])

RECURSIVE Dedup(_)
Dedup(seq) ==
    IF Len(seq) < 2 THEN seq
    ELSE IF seq[1] = seq[2] THEN Dedup(Tail(seq))
    ELSE <<seq[1]>> \o Dedup(Tail(seq))

\* the id attributes of the section headings of content.xhtml, one per
\* run of headings of the same section
HeadingIDs ==
    LET hs == SelectSeq(ContentBody, LAMBDA e : e.kind = "heading"
                           /\ e.id # <<>>)
    IN  Dedup([k \in 1..Len(hs) |-> hs[k].id])

SameSeq(a, b) ==
    Len(a) = Len(b) /\ \A k \in 1..Len(a) : a[k] = b[k]

RangeOf(seq) ==
    {seq[k] : k \in 1..Len(seq)}

\* C4: the heading ids of content.xhtml, the src fragments of toc.ncx and
\* the href fragments of nav.xhtml are, in document order, the ids
\* section-<i>(-sub-<j>)* of the titled sections.
C4_SameIDsEverywhere ==
    Succeeded =>
        /\ SameSeq(HeadingIDs, TitledIDs)
        /\ SameSeq(NcxFragments, TitledIDs)
        /\ SameSeq(NavFragments, TitledIDs)
        /\ RangeOf(NcxFragments) \cup RangeOf(NavFragments)
               \subseteq RangeOf(HeadingIDs)

C4_Witness ==
    /\ Succeeded /\ pc = "done"
    /\ Len(TitledIDs) >= 3
    /\ \E k \in 1..Len(TitledIDs) :
          TitledIDs[k] = S_section \o <<"1">> \o S_sub \o <<"0">>
                         \o S_sub \o <<"0">>
    /\ \E k \in 1..Len(AllSections) : ~Titled(AllSections[k].section)

RECURSIVE TOCIDs(_)
TOCIDs(tocEntries) ==
    IF tocEntries = <<>> THEN {}
    ELSE {Head(tocEntries).ID} \cup TOCIDs(Head(tocEntries).Children)
         \cup TOCIDs(Tail(tocEntries))

\* the <p> texts of content.xhtml in document order with the section that
\* owns each: own paragraphs, nested sections, then citation paragraphs
RECURSIVE OwnParagraphs(_, _), CiteParagraphs(_), CitesParagraphs(_), ExpectedParagraphs(_, _, _)
OwnParagraphs(ps, id) ==
    IF ps = <<>> THEN <<>>
    ELSE (IF processParagraph(Head(ps), imageMap) # <<>>
          THEN <<[owner |-> id,
                  text |-> processParagraph(Head(ps), imageMap)]>>
          ELSE <<>>)
         \o OwnParagraphs(Tail(ps), id)

CiteParagraphs(ps) ==
    IF ps = <<>> THEN <<>>
    ELSE <<[owner |-> <<>>, text |-> processParagraph(Head(ps), imageMap)]>>
         \o CiteParagraphs(Tail(ps))

CitesParagraphs(cs) ==
    IF cs = <<>> THEN <<>>
    ELSE CiteParagraphs(Head(cs).Paragraph) \o CitesParagraphs(Tail(cs))

ExpectedParagraphs(sections, parent, i) ==
    IF i > Len(sections) THEN <<>>
    ELSE LET id == IF parent = <<>> THEN S_section \o Itoa(i - 1)
                   ELSE parent \o S_sub \o Itoa(i - 1)
         IN  OwnParagraphs(sections[i].Paragraph, id)
             \o ExpectedParagraphs(sections[i].Section, id, 1)
             \o CitesParagraphs(sections[i].Cite)
             \o ExpectedParagraphs(sections, parent, i + 1)

ParagraphTexts ==
    LET ps == SelectSeq(ContentBody, LAMBDA e : e.kind = "p")
    IN  [k \in 1..Len(ps) |-> ps[k].text]

\* no title and no titled descendant
Silent(section) ==
    ~Titled(section) /\ ~HasTitledDescendant(section)

\* C5: a section without title and without titled descendant has no
\* TOCEntry, no navPoint and no nav item, and each of its paragraphs is a
\* <p> of content.xhtml at the section's place in document order.
C5_SilentSectionStillRendered ==
    Succeeded =>
        \A k \in 1..Len(AllSections) :
            Silent(AllSections[k].section) =>
                /\ AllSections[k].id \notin TOCIDs(buildTOC(fb2))
                /\ AllSections[k].id \notin RangeOf(NcxFragments)
                /\ AllSections[k].id \notin RangeOf(NavFragments)
                /\ LET expected == ExpectedParagraphs(fb2.Body.Section,
                                                      <<>>, 1)
                   IN  /\ OwnParagraphs(AllSections[k].section.Paragraph,
                                        AllSections[k].id) # <<>>
                          => \E n \in 1..Len(expected) :
                                expected[n].owner = AllSections[k].id
                       /\ \A n \in 1..Len(expected) :
                             expected[n].owner = AllSections[k].id =>
                                /\ n <= Len(ParagraphTexts)
                                /\ ParagraphTexts[n] = expected[n].text

C5_Witness ==
    /\ Succeeded /\ pc = "done"
    /\ \E k \in 2..(Len(AllSections) - 1) :
          /\ Silent(AllSections[k].section)
          /\ Titled(AllSections[k - 1].section)
          /\ Titled(AllSections[k + 1].section)
          /\ Len(AllSections[k - 1].section.Section) > 0
RECURSIVE FindEntry(_, _)
FindEntry(tocEntries, id) ==
    IF tocEntries = <<>> THEN <<>>
    ELSE (IF Head(tocEntries).ID = id THEN <<Head(tocEntries)>> ELSE <<>>)
         \o FindEntry(Head(tocEntries).Children, id)
         \o FindEntry(Tail(tocEntries), id)

\* the ids of the sub-sections of AllSections[k] that are titled or have a
\* titled descendant, in order
VisibleChildIDs(k) ==
    LET subs == AllSections[k].section.Section
        idx  == SelectSeq([i \in 1..Len(subs) |-> i],
                          LAMBDA i : Titled(subs[i])
                                     \/ HasTitledDescendant(subs[i]))
    IN  [n \in 1..Len(idx) |->
            AllSections[k].id \o S_sub \o Itoa(idx[n] - 1)]

TitledDescendantIDs(k) ==
    {AllSections[j].id : j \in {j \in 1..Len(AllSections) :
        /\ Titled(AllSections[j].section)
        /\ HasPrefixAt(AllSections[j].id, AllSections[k].id \o S_sub, 1)}}

\* C6: an untitled section with a titled descendant yields one entry with
\* an empty title whose children are the entries of its visible
\* sub-sections; its titled descendants are in toc.ncx and nav.xhtml; no
\* navPoint and no nav item carries an empty label.
C6_PassThroughNeverLabelled ==
    Succeeded =>
        /\ \A k \in 1..Len(AllSections) :
              (~Titled(AllSections[k].section)
               /\ HasTitledDescendant(AllSections[k].section)) =>
                  LET found == FindEntry(buildTOC(fb2), AllSections[k].id)
                  IN  /\ Len(found) = 1
                      /\ found[1].Title = <<>>
                      /\ SameSeq(IDsOf([c \in 1..Len(found[1].Children) |->
                                   [id |-> found[1].Children[c].ID]]),
                                 VisibleChildIDs(k))
                      /\ TitledDescendantIDs(k) \subseteq RangeOf(NcxFragments)
                      /\ TitledDescendantIDs(k) \subseteq RangeOf(NavFragments)
        /\ \A n \in 1..Len(NavMap) :
              NavMap[n].kind = "navPoint" => NavMap[n].text # <<>>
        /\ \A n \in 1..Len(NavList) :
              NavList[n].kind = "li" => NavList[n].text # <<>>

C6_Witness ==
    /\ Succeeded /\ pc = "done"
    /\ \E k \in 1..Len(AllSections) :
          /\ ~Titled(AllSections[k].section)
          /\ Len(VisibleChildIDs(k)) = 1
          /\ Len(AllSections[k].section.Section) = 2
          /\ Cardinality(TitledDescendantIDs(k)) = 2

NavPoints ==
    SelectSeq(NavMap, LAMBDA e : e.kind = "navPoint")

\* C7: the navPoints of toc.ncx, in the order written, are the cover with
\* playOrder 1, the content with playOrder 2 and then the titled sections
\* in document order, the k-th with playOrder k + 2.
C7_PlayOrderPreorder ==
    Succeeded =>
        /\ Len(NavPoints) = Len(TitledIDs) + 2
        /\ NavPoints[1].src = S_coverHref /\ NavPoints[1].playOrder = 1
        /\ NavPoints[2].src = S_contentHref /\ NavPoints[2].playOrder = 2
        /\ \A k \in 1..Len(TitledIDs) :
              /\ NavPoints[k + 2].src = S_contentFrag \o TitledIDs[k]
              /\ NavPoints[k + 2].playOrder = k + 2

\* a chain nested six deep whose untitled sections lie between titled ones
C7_Witness ==
    /\ Succeeded /\ pc = "done"
    /\ Len(AllSections) >= 6
    /\ Len(fb2.Body.Section) = 1
    /\ Titled(AllSections[1].section)
    /\ ~Titled(AllSections[2].section)
    /\ ~Titled(AllSections[3].section)
    /\ Titled(AllSections[4].section)
    /\ ~Titled(AllSections[5].section)
    /\ Titled(AllSections[6].section)
    /\ NavPoints[5].playOrder = 5

\* the maximum nesting depth of a TOCEntry tree
RECURSIVE NestingDepth(_)
NestingDepth(tocEntries) ==
    IF tocEntries = <<>> THEN 0
    ELSE LET here == 1 + NestingDepth(Head(tocEntries).Children)
             rest == NestingDepth(Tail(tocEntries))
         IN  IF here > rest THEN here ELSE rest

\* C8: dtb:depth is the maximum nesting depth of the TOCEntry tree, or 1
\* when that depth is less than 1.
C8_DepthIsNestingDepth ==
    Succeeded =>
        entries[4].Data.depth =
            (IF NestingDepth(buildTOC(fb2)) < 1 THEN 1
             ELSE NestingDepth(buildTOC(fb2)))
L_Entities ==
    {<<"&", "a", "m", "p", ";">>, <<"&", "l", "t", ";">>,
     <<"&", "g", "t", ";">>, <<"&", "#", "3", "9", ";">>,
     <<"&", "#", "3", "4", ";">>}

L_PlainTags ==
    {<<"<", "/", "a", ">">>,
     <<"<", "s", "t", "r", "o", "n", "g", ">">>,
     <<"<", "/", "s", "t", "r", "o", "n", "g", ">">>,
     <<"<", "e", "m", ">">>, <<"<", "/", "e", "m", ">">>}

L_AnchorOpen ==
    <<"<", "a", " ", "h", "r", "e", "f", "=", "\"">>

L_AnchorEnd ==
    <<"\"", ">">>

L_ImgOpen ==
    <<"<", "i", "m", "g", " ", "s", "r", "c", "=", "\"">>

L_ImgEnd ==
    <<"\"", " ", "a", "l", "t", "=", "\"", "\"", "/", ">">>

\* the position of the first double quote at or after i, 0 if there is none
QuoteFrom(s, i) ==
    LET qs == {j \in i..Len(s) : s[j] = "\""}
    IN  IF qs = {} THEN 0 ELSE CHOOSE j \in qs : \A k \in qs : j <= k

\* s[i..j] holds no "<" or ">" and every "&" in it starts an entity
ValueEscaped(s, i, j) ==
    \A k \in i..j :
        /\ s[k] \notin {"<", ">"}
        /\ s[k] = "&" => \E e \in L_Entities : HasPrefixAt(s, e, k)

\* from position i on, "<" only opens one of the renderer's tags, "&"
\* only starts a complete entity and ">" only ends a tag
RECURSIVE Escaped(_, _)
Escaped(s, i) ==
    IF i > Len(s) THEN TRUE
    ELSE IF s[i] = "&"
    THEN \E e \in L_Entities : HasPrefixAt(s, e, i) /\ Escaped(s, i + Len(e))
    ELSE IF s[i] = "<"
    THEN \/ \E t \in L_PlainTags :
               HasPrefixAt(s, t, i) /\ Escaped(s, i + Len(t))
         \/ /\ HasPrefixAt(s, L_AnchorOpen, i)
            /\ LET q == QuoteFrom(s, i + Len(L_AnchorOpen))
               IN  /\ q # 0
                   /\ HasPrefixAt(s, L_AnchorEnd, q)
                   /\ ValueEscaped(s, i + Len(L_AnchorOpen), q - 1)
                   /\ Escaped(s, q + Len(L_AnchorEnd))
         \/ /\ HasPrefixAt(s, L_ImgOpen, i)
            /\ LET q == QuoteFrom(s, i + Len(L_ImgOpen))
               IN  /\ q # 0
                   /\ HasPrefixAt(s, L_ImgEnd, q)
                   /\ ValueEscaped(s, i + Len(L_ImgOpen), q - 1)
                   /\ Escaped(s, q + Len(L_ImgEnd))
    ELSE IF s[i] = ">" THEN FALSE
    ELSE Escaped(s, i + 1)

\* C9: the fragment returned by processParagraph has "<", ">" and "&"
\* only in the renderer's own tags and in complete character entities.
C9_NoBareSpecialCharacters ==
    pc = "returned" => Escaped(result, 1)
\* the zero-byte input has been read (the file, if any, could be opened)
ParsedEmptyInput ==
    /\ pc = "parsed"
    /\ input = <<>>
    /\ parsed.err # "failed to open file"

\* C10 as stated: parsing a zero-byte input returns no error and a
\* Document with zero sections and empty metadata.
C10_EmptyInputParses ==
    ParsedEmptyInput =>
        /\ parsed.err = NoError
        /\ Len(parsed.book) = 1
        /\ parsed.book[1].Body.Section = <<>>
        /\ parsed.book[1].Description.TitleInfo.BookTitle = <<>>

\* C10 (amended): parsing a zero-byte input returns the error "failed to
\* parse FB2 XML: EOF" and no Document.
C10_EmptyInputIsParseError ==
    ParsedEmptyInput =>
        /\ parsed.err = "failed to parse FB2 XML: EOF"
        /\ parsed.book = <<>>

C10_Witness ==
    /\ ParsedEmptyInput
    /\ parsed.err = "failed to parse FB2 XML: EOF"

(***************************************************************************)
(* C11: errors of GenerateEPUB                                             *)
(***************************************************************************)
\* GenerateEPUB has returned (the deferred calls have run)
Returned ==
    pc = "done"

\* C11: GenerateEPUB returns nil only if every file-system and ZIP
\* operation of the call succeeded, closing the archive and the file
\* included; after a failed creation or write no further entry is created.
C11_NilOnlyIfEverythingSucceeded ==
    /\ Returned /\ err = NoError =>
          /\ closed = "closed"
          /\ \A i \in 1..Len(entries) : entries[i].Written
    /\ \A i \in 1..Len(entries) :
          ~entries[i].Written => i = Len(entries) /\ err # NoError

(***************************************************************************)
(* C12: metadata of content.opf                                            *)
(***************************************************************************)
\* content.opf has been written
PackageWritten ==
    Len(entries) >= 3 /\ entries[3].Written

TitleInfoOfBook ==
    fb2.Description.TitleInfo

L_NameParts(author) ==
    SelectSeq(<<author.FirstName, author.MiddleName, author.LastName>>,
              LAMBDA part : part # <<>>)

\* first/middle/last joined by single spaces, or the nickname when all
\* three are empty
L_DisplayName(author) ==
    IF L_NameParts(author) = <<>> THEN author.Nickname
    ELSE Join(L_NameParts(author), <<" ">>)

L_DisplayNames ==
    SelectSeq([i \in 1..Len(TitleInfoOfBook.Author) |->
                  L_DisplayName(TitleInfoOfBook.Author[i])],
              LAMBDA name : name # <<>>)

\* C12: dc:title is the book title or "Untitled"; dc:creator is the
\* ", "-joined list of the non-empty display names or "Unknown";
\* dc:language is the language code or "en" (text is written XML-escaped).
C12_PackageMetadata ==
    PackageWritten =>
        /\ entries[3].Data.title =
              EscapeString(IF TitleInfoOfBook.BookTitle = <<>>
                           THEN <<"U", "n", "t", "i", "t", "l", "e", "d">>
                           ELSE TitleInfoOfBook.BookTitle)
        /\ entries[3].Data.creator =
              EscapeString(IF L_DisplayNames = <<>>
                           THEN <<"U", "n", "k", "n", "o", "w", "n">>
                           ELSE Join(L_DisplayNames, <<",", " ">>))
        /\ entries[3].Data.language =
              (IF TitleInfoOfBook.Lang = <<>> THEN <<"e", "n">>
               ELSE TitleInfoOfBook.Lang)

\* two authors: one known by nickname only, one with a first and a last
\* name as well as a nickname
C12_Witness ==
    /\ PackageWritten
    /\ Len(TitleInfoOfBook.Author) = 2
    /\ L_NameParts(TitleInfoOfBook.Author[1]) = <<>>
    /\ TitleInfoOfBook.Author[1].Nickname # <<>>
    /\ Len(L_NameParts(TitleInfoOfBook.Author[2])) = 2
    /\ TitleInfoOfBook.Author[2].Nickname # <<>>
    /\ TitleInfoOfBook.Lang # <<>>

(***************************************************************************)
(* C13: binaries that do not decode                                        *)
(***************************************************************************)
UndecodedBinaries ==
    (1..Len(fb2.Binary)) \ DecodedBinaries

\* an archive entry at the path of the binary
HasEntry(binary) ==
    \E i \in 8..Len(entries) : entries[i].Name = L_PathOfBinary(binary)

\* a manifest item under the id of the binary
HasManifestItem(binary) ==
    \E k \in ManifestImageItems : Manifest[k].id = binary.ID

\* an archive entry at the path of the binary that holds its decoded bytes
WrittenWithDecodedBytes(binary) ==
    \E i \in 8..Len(entries) :
        /\ entries[i].Name = L_PathOfBinary(binary)
        /\ entries[i].Written
        /\ entries[i].Data = DecodeString(binary.Data).bytes

\* the conversion went through although some binary did not decode
SucceededWithUndecoded ==
    Succeeded /\ UndecodedBinaries # {}

\* C13 as stated: after a successful call on a document with a binary that
\* does not decode, that binary has neither an archive entry nor a manifest
\* item and every other binary is written with its decoded bytes.
C13_OthersAllWritten ==
    SucceededWithUndecoded =>
        /\ \A i \in UndecodedBinaries :
              ~HasEntry(fb2.Binary[i]) /\ ~HasManifestItem(fb2.Binary[i])
        /\ \A j \in DecodedBinaries : WrittenWithDecodedBytes(fb2.Binary[j])

\* some decoded binary carries the id of binary i
IDDecoded(i) ==
    \E j \in DecodedBinaries : fb2.Binary[j].ID = fb2.Binary[i].ID

\* C13 (amended): a binary that does not decode never makes GenerateEPUB
\* fail and adds no archive entry and no manifest item (one exists under its
\* id only if another binary with that id decodes); every decoded binary
\* that is the last decoded one with its id is written with its bytes.
C13_DroppedWithoutFailing ==
    /\ (pc = "addContentOPF" => err = NoError)
    /\ SucceededWithUndecoded =>
          /\ \A i \in UndecodedBinaries :
                ~IDDecoded(i) => /\ ~HasEntry(fb2.Binary[i])
                                 /\ ~HasManifestItem(fb2.Binary[i])
          /\ Len(entries) = 7 + Cardinality({fb2.Binary[j].ID :
                                                j \in DecodedBinaries})
          /\ \A j \in DecodedBinaries :
                WrittenWithDecodedBytes(fb2.Binary[LastDecodedWithID(j)])

\* a binary that does not decode, followed by one that does, with another id
C13_Witness ==
    /\ SucceededWithUndecoded /\ pc = "done"
    /\ \E i \in UndecodedBinaries, j \in DecodedBinaries :
          /\ i < j
          /\ fb2.Binary[i].ID # fb2.Binary[j].ID
          /\ ~IDDecoded(i)
          /\ WrittenWithDecodedBytes(fb2.Binary[j])

(***************************************************************************)
(* Concurrent GenerateEPUB calls                                           *)
(*                                                                         *)
(* converter/epubgenerator.go declares constants only: every variable of   *)
(* GenerateEPUB and of the functions it calls is a local or a parameter.   *)
(* A call is a record of its locals; calls[p] is the call that writes the  *)
(* output path p.                                                          *)
(***************************************************************************)
OutputPaths ==
    1..MaxCalls

\* the documents handed to concurrent calls
ConcurrentBooks ==
    <<FictionBook(T_Book, <<>>, <<>>, <<>>,
                 <<Section(Title(<<PlainParagraph(<<"A">>)>>), <<>>,
                           <<Paragraph(<<"x">>, <<>>, <<>>,
                                       <<Image(<<"#", "a">>)>>, <<>>)>>)>>,
                 <<Binary(<<"a">>, S_imagePng, <<"Q", "Q", "=", "=">>)>>),
     FictionBook(<<>>, <<Author(<<"F">>, <<>>, <<"&">>, <<>>)>>, <<>>, <<>>,
                 <<Section(NilTitle, <<>>, <<PlainParagraph(<<"y">>)>>),
                   Section(Title(<<PlainParagraph(<<"B">>)>>), <<>>, <<>>)>>,
                 <<Binary(<<"a">>, S_imageJpeg, <<"Q", "g", "=", "=">>),
                   Binary(<<"b">>, S_imagePng, <<"Q", "Q", "=">>)>>),
     FictionBook(<<"C">>, <<>>, <<"r", "u">>, <<>>, <<>>, <<>>)>>

\* the locals of one GenerateEPUB call
Call(book) ==
    [pc |-> "MkdirAll", fb2 |-> book, entries |-> <<>>, imageMap |-> NilMap,
     pending |-> {}, err |-> NoError, closed |-> "open"]

callImageMap_PackageLevel(p) ==
    calls[1].imageMap

\* the imageMap that the call writing path p hands to addContentOPF,
\* addHTMLContent and addBinaryResources: its own local
callImageMap(p) ==
    calls[p].imageMap

\* a written document apart from the generated UUID and the date, which no
\* two calls share: the calls are compared up to these values
apartFromUUID(data) ==
    IF "identifier" \in DOMAIN data
    THEN [data EXCEPT !.identifier = S_urnuuid, !.modified = <<>>]
    ELSE [data EXCEPT !.uid = S_urnuuid]

\* writer.Create / CreateHeader and w.Write within call s
callAddEntry(s, header, data, next, createErr, writeErr) ==
    {[s EXCEPT !.err = createErr, !.pc = "return"],
     [s EXCEPT !.entries = Append(@, Entry(header, FALSE, <<>>)),
               !.err = writeErr, !.pc = "return"],
     [s EXCEPT !.entries = Append(@, Entry(header, TRUE, data)),
               !.pc = next]}

InitConcurrent ==
    /\ \E doc \in [OutputPaths -> DOMAIN ConcurrentBooks] :
          /\ \A p, q \in OutputPaths : p < q => doc[p] < doc[q]
          /\ calls = [p \in OutputPaths |-> Call(ConcurrentBooks[doc[p]])]
    /\ pc = "idle"
    /\ fb2 = FictionBook(<<>>, <<>>, <<>>, <<>>, <<>>, <<>>)
    /\ entries = <<>>
    /\ imageMap = NilMap
    /\ pending = {}
    /\ err = NoError
    /\ closed = "open"
    /\ para = PlainParagraph(<<>>)
    /\ result = <<>>
    /\ input = <<>>
    /\ parsed = [book |-> <<>>, err |-> NoError]
    /\ HandlersIdle

\* lines 26-35 in the call writing path p
CallOpen(p) ==
    /\ calls[p].pc \in {"MkdirAll", "Create"}
    /\ \E t \in IF calls[p].pc = "MkdirAll"
                THEN {[calls[p] EXCEPT !.pc = "Create"],
                      [calls[p] EXCEPT !.pc = "done",
                          !.err = "failed to create output directory"]}
                ELSE {[calls[p] EXCEPT !.pc = "addMimetype"],
                      [calls[p] EXCEPT !.pc = "done",
                          !.err = "failed to create EPUB file"]} :
          calls' = [calls EXCEPT ![p] = t]
    /\ UNCHANGED converterVars
    /\ UNCHANGED handlerVars

\* lines 51-58
CallAddFixed(p) ==
    /\ calls[p].pc \in {"addMimetype", "addContainer"}
    /\ \E t \in IF calls[p].pc = "addMimetype"
                THEN callAddEntry(calls[p], mimetypeHeader, S_mimetypeBody,
                                  "addContainer", "create failed",
                                  "write failed")
                ELSE callAddEntry(calls[p], createHeader(S_container),
                                  [rootfile |-> S_contentOPF],
                                  "collectImages", "create failed",
                                  "write failed") :
          calls' = [calls EXCEPT ![p] = t]
    /\ UNCHANGED converterVars
    /\ UNCHANGED handlerVars

\* line 61
CallCollectImages(p) ==
    /\ calls[p].pc = "collectImages"
    /\ calls' = [calls EXCEPT ![p].imageMap = collectImages(calls[p].fb2),
                              ![p].pc = "addContentOPF"]
    /\ UNCHANGED converterVars
    /\ UNCHANGED handlerVars

\* lines 64-76
CallAddNavigation(p) ==
    /\ calls[p].pc \in {"addContentOPF", "addTOCNCX", "addNavXHTML"}
    /\ \E uuid \in UUIDs, date \in Dates,
          order \in Orders(DOMAIN callImageMap(p).m) :
          \E t \in CASE calls[p].pc = "addContentOPF" ->
                          callAddEntry(calls[p], createHeader(S_contentOPF),
                                       apartFromUUID(
                                           contentOPF(calls[p].fb2,
                                                      callImageMap(p), order,
                                                      uuid, date)),
                                       "addTOCNCX", "create failed",
                                       "write failed")
                     [] calls[p].pc = "addTOCNCX" ->
                          callAddEntry(calls[p], createHeader(S_tocNCX),
                                       apartFromUUID(tocNCX(calls[p].fb2,
                                                            uuid)),
                                       "addNavXHTML", "create failed",
                                       "write failed")
                     [] OTHER ->
                          callAddEntry(calls[p], createHeader(S_navXHTML),
                                       navXHTML(calls[p].fb2),
                                       "addCoverPage", "create failed",
                                       "write failed") :
              calls' = [calls EXCEPT ![p] = t]
    /\ UNCHANGED converterVars
    /\ UNCHANGED handlerVars

\* lines 79-81: addHTMLContent
CallAddHTMLContent(p) ==
    /\ calls[p].pc \in {"addCoverPage", "addMainContent"}
    /\ \E t \in IF calls[p].pc = "addCoverPage"
                THEN callAddEntry(calls[p], createHeader(S_coverXHTML),
                                  coverPage(calls[p].fb2), "addMainContent",
                                  "create failed", "write failed")
                ELSE callAddEntry(calls[p], createHeader(S_contentXHTML),
                                  [body |-> mainContent(calls[p].fb2,
                                                        callImageMap(p))],
                                  "addBinaryResources", "create failed",
                                  "write failed") :
          calls' = [calls EXCEPT ![p] =
                       IF t.pc = "addBinaryResources"
                       THEN [t EXCEPT !.pending = DOMAIN callImageMap(p).m]
                       ELSE t]
    /\ UNCHANGED converterVars
    /\ UNCHANGED handlerVars

\* lines 84-88: one iteration of the loop of addBinaryResources, or return
CallAddBinaryResources(p) ==
    /\ calls[p].pc = "addBinaryResources"
    /\ \/ \E imgID \in calls[p].pending :
             \E t \in callAddEntry(
                        calls[p],
                        createHeader(imagePath(imgID,
                                               callImageMap(p).m[imgID])),
                        callImageMap(p).m[imgID].Data, "addBinaryResources",
                        "failed to create image file",
                        "failed to write image data") :
                 calls' = [calls EXCEPT ![p] =
                              [t EXCEPT !.pending = @ \ {imgID}]]
       \/ /\ calls[p].pending = {}
          /\ calls' = [calls EXCEPT ![p].pc = "return"]
    /\ UNCHANGED converterVars
    /\ UNCHANGED handlerVars

\* lines 36-48: the deferred Close calls
CallClose(p) ==
    /\ calls[p].pc = "return"
    /\ \E c \in {"closed", "zip close failed", "file close failed"} :
          calls' = [calls EXCEPT ![p].closed = c, ![p].pc = "done"]
    /\ UNCHANGED converterVars
    /\ UNCHANGED handlerVars

NextConcurrent ==
    \E p \in OutputPaths :
        \/ CallOpen(p)
        \/ CallAddFixed(p)
        \/ CallCollectImages(p)
        \/ CallAddNavigation(p)
        \/ CallAddHTMLContent(p)
        \/ CallAddBinaryResources(p)
        \/ CallClose(p)

SpecConcurrent ==
    InitConcurrent /\ [][NextConcurrent]_vars

(***************************************************************************)
(* C14: concurrent conversions                                             *)
(***************************************************************************)
\* the entries a call on book creates when it runs alone and every
\* operation succeeds, for each order of the image map and each UUID
SoloArchives(book) ==
    LET images == collectImages(book)
        fixed(order, u1, u2, date) ==
            <<Entry(mimetypeHeader, TRUE, S_mimetypeBody),
              Entry(createHeader(S_container), TRUE,
                    [rootfile |-> S_contentOPF]),
              Entry(createHeader(S_contentOPF), TRUE,
                    apartFromUUID(contentOPF(book, images, order, u1, date))),
              Entry(createHeader(S_tocNCX), TRUE,
                    apartFromUUID(tocNCX(book, u2))),
              Entry(createHeader(S_navXHTML), TRUE, navXHTML(book)),
              Entry(createHeader(S_coverXHTML), TRUE, coverPage(book)),
              Entry(createHeader(S_contentXHTML), TRUE,
                    [body |-> mainContent(book, images)])>>
        binaries(order) ==
            [i \in 1..Len(order) |->
                Entry(createHeader(imagePath(order[i], images.m[order[i]])),
                      TRUE, images.m[order[i]].Data)]
    IN  {fixed(o1, u1, u2, d) \o binaries(o2) :
            o1 \in Orders(DOMAIN images.m), o2 \in Orders(DOMAIN images.m),
            u1 \in UUIDs, u2 \in UUIDs, d \in Dates}

\* a call that runs alone and succeeds produces one of SoloArchives
SoloRun ==
    pc = "done" /\ err = NoError =>
        [i \in 1..Len(entries) |->
            IF i \in {3, 4}
            THEN [entries[i] EXCEPT !.Data = apartFromUUID(@)]
            ELSE entries[i]] \in SoloArchives(fb2)

\* C14: every call of a set of interleaved GenerateEPUB calls on different
\* documents and output paths that returns nil has produced an archive
\* that the same call produces when it runs alone.
C14_CallsDoNotInterfere ==
    \A p \in OutputPaths :
        calls[p].pc = "done" /\ calls[p].err = NoError =>
            calls[p].entries \in SoloArchives(calls[p].fb2)

\* two calls have finished successfully and each was in the middle of its
\* work while the other was
C14_Witness ==
    /\ \A p \in OutputPaths :
          /\ calls[p].pc = "done"
          /\ calls[p].err = NoError
    /\ \E p, q \in OutputPaths :
          /\ p # q
          /\ Len(calls[p].entries) = 8
          /\ Len(calls[q].entries) >= 7

(***************************************************************************)
(* handlers: the job table, the conversion workers and the cleanup         *)
(*                                                                         *)
(* Every HTTP request runs in a goroutine of its own, every accepted       *)
(* upload starts a processConversion goroutine and every trigger starts a  *)
(* cleanupOldJobs goroutine.  Time is counted in hours.                    *)
(***************************************************************************)
JobStatusProcessing ==
    "processing"

JobStatusCompleted ==
    "completed"

JobStatusFailed ==
    "failed"

\* the ids uuid.New() hands out, in the order of the requests
JobIDs ==
    1..MaxJobs

\* an entry of the temp folder that no request of this run has created
LeftoverID ==
    0

\* *ConversionJob
ConversionJob(status, createdAt) ==
    [Status |-> status, CreatedAt |-> createdAt]

\* an entry of cfg.TempDir as os.ReadDir and os.Stat report it
DirEntry(modTime, isDir, uuidName) ==
    [ModTime |-> modTime, IsDir |-> isDir, UUIDName |-> uuidName]

\* f without the key k
MapDelete(f, k) ==
    [x \in (DOMAIN f) \ {k} |-> f[x]]

InitService ==
    /\ conversionJobs = <<>>
    /\ completedJobCount = 0
    /\ cleanupMutex = "free"
    /\ tempDir \in {[x \in {LeftoverID} |-> DirEntry(0, TRUE, TRUE)],
                    [x \in {LeftoverID} |-> DirEntry(0, TRUE, FALSE)]}
    /\ outputs = {}
    /\ now = 0
    /\ issued = 0
    /\ workers = <<>>
    /\ cleanup = [waiting |-> 0, entries |-> {}, now |-> 0]
    /\ cleanupsStarted = 0
    /\ handling = [pc |-> "none"]
    /\ calls = <<>>
    /\ pc = "idle"
    /\ fb2 = FictionBook(<<>>, <<>>, <<>>, <<>>, <<>>, <<>>)
    /\ entries = <<>>
    /\ imageMap = NilMap
    /\ pending = {}
    /\ err = NoError
    /\ closed = "open"
    /\ para = PlainParagraph(<<>>)
    /\ result = <<>>
    /\ input = <<>>
    /\ parsed = [book |-> <<>>, err |-> NoError]

\* ConvertFB2ToEPUB from the generated job id on (lines 92-163): the job
\* directory is created and the upload saved in it; then the job is put
\* into the table and its worker is started, or, when saving fails, the
\* handler answers 500 and leaves the directory.  A request that is
\* rejected earlier changes nothing.
ConvertFB2ToEPUB ==
    /\ issued < MaxJobs
    /\ issued' = issued + 1
    /\ tempDir' = MapSet(tempDir, issued + 1, DirEntry(now, TRUE, TRUE))
    /\ \/ /\ conversionJobs' = MapSet(conversionJobs, issued + 1,
                                      ConversionJob(JobStatusProcessing, now))
          /\ workers' = MapSet(workers, issued + 1,
                               [pc |-> "run", outcome |-> "none"])
       \/ UNCHANGED <<conversionJobs, workers>>
    /\ UNCHANGED <<completedJobCount, cleanupMutex, outputs, now, cleanup,
                   cleanupsStarted, handling, calls>>
    /\ UNCHANGED converterVars

statusOf_AlwaysCompleted(outcome) ==
    JobStatusCompleted

\* the status processConversion stores for the outcome of ParseFB2 and
\* GenerateEPUB (lines 169-182)
statusOf(outcome) ==
    IF outcome = "ok" THEN JobStatusCompleted ELSE JobStatusFailed

\* processConversion, lines 159-182: the job is looked up, the upload is
\* parsed and the EPUB generated, and the outcome is stored in job.Status.
\* (The modification time of the job directory is read for directories
\* without a job only, line 299, and a job stays in the table as long as its
\* directory exists: what the worker does to that time is never read.)
WorkerRun(jobID) ==
    /\ jobID \in DOMAIN workers
    /\ workers[jobID].pc = "run"
    /\ \E outcome \in {"ok", "parse failed", "generate failed"} :
          /\ conversionJobs' =
                [conversionJobs EXCEPT ![jobID].Status = statusOf(outcome)]
          /\ workers' = [workers EXCEPT
                            ![jobID].outcome = outcome,
                            ![jobID].pc = IF outcome = "ok" THEN "count"
                                          ELSE "done"]
          /\ outputs' = IF outcome = "ok" THEN outputs \cup {jobID}
                        ELSE outputs
    /\ UNCHANGED <<completedJobCount, cleanupMutex, tempDir, now, issued,
                   cleanup, cleanupsStarted, handling, calls>>
    /\ UNCHANGED converterVars

shouldCleanupAt_Above(count) ==
    count > CleanupTriggerCount

\* shouldCleanup of processConversion (line 187)
shouldCleanupAt(count) ==
    count >= CleanupTriggerCount

\* processConversion, lines 185-190: the section under cleanupMutex
WorkerCount(jobID) ==
    /\ jobID \in DOMAIN workers
    /\ workers[jobID].pc = "count"
    /\ cleanupMutex = "free"
    /\ completedJobCount' = IF shouldCleanupAt(completedJobCount + 1) THEN 0
                            ELSE completedJobCount + 1
    /\ workers' = [workers EXCEPT
                      ![jobID].pc = IF shouldCleanupAt(completedJobCount + 1)
                                    THEN "trigger" ELSE "done"]
    /\ UNCHANGED <<conversionJobs, cleanupMutex, tempDir, outputs, now, issued,
                   cleanup, cleanupsStarted, handling, calls>>
    /\ UNCHANGED converterVars

\* processConversion, lines 192-196: go cleanupOldJobs(cfg)
WorkerTrigger(jobID) ==
    /\ jobID \in DOMAIN workers
    /\ workers[jobID].pc = "trigger"
    /\ cleanup' = [cleanup EXCEPT !.waiting = @ + 1]
    /\ cleanupsStarted' = cleanupsStarted + 1
    /\ workers' = [workers EXCEPT ![jobID].pc = "done"]
    /\ UNCHANGED <<conversionJobs, completedJobCount, cleanupMutex, tempDir,
                   outputs, now, issued, handling, calls>>
    /\ UNCHANGED converterVars

\* cleanupOldJobs, lines 266-276: the mutex is taken and the temp folder is
\* listed; when os.ReadDir fails the goroutine returns at once
CleanupLock ==
    /\ cleanup.waiting > 0
    /\ cleanupMutex = "free"
    /\ \/ /\ cleanupMutex' = "cleanup"
          /\ cleanup' = [waiting |-> cleanup.waiting - 1,
                         entries |-> DOMAIN tempDir, now |-> now]
       \/ /\ cleanupMutex' = "free"
          /\ cleanup' = [cleanup EXCEPT !.waiting = @ - 1]
    /\ UNCHANGED <<conversionJobs, completedJobCount, tempDir, outputs, now,
                   issued, workers, cleanupsStarted, handling, calls>>
    /\ UNCHANGED converterVars

shouldCleanup_IgnoresAge(jobID, statOK) ==
    IF jobID \notin DOMAIN conversionJobs
    THEN statOK /\ cleanup.now - tempDir[jobID].ModTime > Hour
    ELSE conversionJobs[jobID].Status \in {JobStatusCompleted,
                                           JobStatusFailed}

\* shouldCleanup of cleanupOldJobs (lines 296-310)
shouldCleanup(jobID, statOK) ==
    IF jobID \notin DOMAIN conversionJobs
    THEN statOK /\ cleanup.now - tempDir[jobID].ModTime > Hour
    ELSE /\ conversionJobs[jobID].Status \in {JobStatusCompleted,
                                              JobStatusFailed}
         /\ cleanup.now - conversionJobs[jobID].CreatedAt > Hour

\* cleanupOldJobs, lines 278-321: one iteration of the loop over the listed
\* entries; os.RemoveAll may fail after it has removed the output file
CleanupEntry ==
    /\ cleanupMutex = "cleanup"
    /\ \E jobID \in cleanup.entries, statOK \in BOOLEAN :
          /\ cleanup' = [cleanup EXCEPT !.entries = @ \ {jobID}]
          /\ IF /\ tempDir[jobID].IsDir
                /\ tempDir[jobID].UUIDName
                /\ shouldCleanup(jobID, statOK)
             THEN \/ /\ tempDir' = MapDelete(tempDir, jobID)
                     /\ outputs' = outputs \ {jobID}
                     /\ conversionJobs' = MapDelete(conversionJobs, jobID)
                  \/ /\ tempDir' = tempDir
                     /\ outputs' \in {outputs, outputs \ {jobID}}
                     /\ conversionJobs' = conversionJobs
             ELSE UNCHANGED <<tempDir, outputs, conversionJobs>>
    /\ UNCHANGED <<completedJobCount, cleanupMutex, now, issued,
                   workers, cleanupsStarted, handling, calls>>
    /\ UNCHANGED converterVars

\* cleanupOldJobs returns: the deferred cleanupMutex.Unlock()
CleanupUnlock ==
    /\ cleanupMutex = "cleanup"
    /\ cleanup.entries = {}
    /\ cleanupMutex' = "free"
    /\ UNCHANGED <<conversionJobs, completedJobCount, tempDir, outputs, now,
                   issued, workers, cleanup, cleanupsStarted,
                   handling, calls>>
    /\ UNCHANGED converterVars

\* a GET request reaches its handler
RequestArrives ==
    /\ handling.pc # "arrived"
    /\ \E kind \in {"status", "download"}, jobID \in {LeftoverID} \cup JobIDs :
          handling' = [pc |-> "arrived", kind |-> kind, id |-> jobID]
    /\ UNCHANGED <<conversionJobs, completedJobCount, cleanupMutex, tempDir,
                   outputs, now, issued, workers, cleanup,
                   cleanupsStarted, calls>>
    /\ UNCHANGED converterVars

Response(kind, code, body) ==
    [pc |-> "responded", kind |-> kind, code |-> code, body |-> body]

\* the answer of GetConversionStatus (lines 199-225)
statusResponse(jobID) ==
    IF jobID \notin DOMAIN conversionJobs
    THEN Response("status", 404, "Job not found")
    ELSE Response("status", 200, conversionJobs[jobID].Status)

GetConversionStatus ==
    /\ handling.pc = "arrived"
    /\ handling.kind = "status"
    /\ handling' = statusResponse(handling.id)
    /\ UNCHANGED <<conversionJobs, completedJobCount, cleanupMutex, tempDir,
                   outputs, now, issued, workers, cleanup,
                   cleanupsStarted, calls>>
    /\ UNCHANGED converterVars

downloadResponse_SkipsStatus(jobID) ==
    IF jobID \notin DOMAIN conversionJobs
    THEN Response("download", 404, "Job not found")
    ELSE IF jobID \notin outputs
    THEN Response("download", 404, "EPUB file not found")
    ELSE Response("download", 200, "file")

\* the answer of DownloadEPUB (lines 229-261)
downloadResponse(jobID) ==
    IF jobID \notin DOMAIN conversionJobs
    THEN Response("download", 404, "Job not found")
    ELSE IF conversionJobs[jobID].Status # JobStatusCompleted
    THEN Response("download", 400, "Conversion not completed yet")
    ELSE IF jobID \notin outputs
    THEN Response("download", 404, "EPUB file not found")
    ELSE Response("download", 200, "file")

DownloadEPUB ==
    /\ handling.pc = "arrived"
    /\ handling.kind = "download"
    /\ handling' = downloadResponse(handling.id)
    /\ UNCHANGED <<conversionJobs, completedJobCount, cleanupMutex, tempDir,
                   outputs, now, issued, workers, cleanup,
                   cleanupsStarted, calls>>
    /\ UNCHANGED converterVars

\* an hour passes
Tick ==
    /\ now < MaxClock
    /\ now' = now + 1
    /\ UNCHANGED <<conversionJobs, completedJobCount, cleanupMutex, tempDir,
                   outputs, issued, workers, cleanup,
                   cleanupsStarted, handling, calls>>
    /\ UNCHANGED converterVars

NextService ==
    \/ ConvertFB2ToEPUB
    \/ \E jobID \in JobIDs : WorkerRun(jobID)
    \/ \E jobID \in JobIDs : WorkerCount(jobID)
    \/ \E jobID \in JobIDs : WorkerTrigger(jobID)
    \/ CleanupLock
    \/ CleanupEntry
    \/ CleanupUnlock
    \/ Tick

\* workers and cleanup
SpecService ==
    InitService /\ [][NextService]_vars

\* every started worker goroutine is scheduled
SpecServiceFair ==
    SpecService /\ \A jobID \in JobIDs : WF_vars(WorkerRun(jobID))

\* GET requests meet a job table in any of the states SpecService leaves it
\* in: each job processing (its worker still running), completed or failed,
\* the output file of a job present or not
InitRequests ==
    /\ \E ids \in SUBSET JobIDs :
          /\ conversionJobs \in
                [ids -> {ConversionJob(st, 0) :
                            st \in {JobStatusProcessing, JobStatusCompleted,
                                    JobStatusFailed}}]
          /\ outputs \in SUBSET {id \in ids : conversionJobs[id].Status
                                                  # JobStatusFailed}
          /\ workers =
                [id \in ids |->
                    CASE conversionJobs[id].Status = JobStatusProcessing ->
                            [pc |-> "run", outcome |-> "none"]
                      [] conversionJobs[id].Status = JobStatusCompleted ->
                            [pc |-> "done", outcome |-> "ok"]
                      [] OTHER ->
                            [pc |-> "done", outcome |-> "parse failed"]]
          /\ tempDir = [id \in ids |-> DirEntry(0, TRUE, TRUE)]
    /\ completedJobCount = 0
    /\ cleanupMutex = "free"
    /\ now = 0
    /\ issued = MaxJobs
    /\ cleanup = [waiting |-> 0, entries |-> {}, now |-> 0]
    /\ cleanupsStarted = 0
    /\ handling = [pc |-> "none"]
    /\ calls = <<>>
    /\ pc = "idle"
    /\ fb2 = FictionBook(<<>>, <<>>, <<>>, <<>>, <<>>, <<>>)
    /\ entries = <<>>
    /\ imageMap = NilMap
    /\ pending = {}
    /\ err = NoError
    /\ closed = "open"
    /\ para = PlainParagraph(<<>>)
    /\ result = <<>>
    /\ input = <<>>
    /\ parsed = [book |-> <<>>, err |-> NoError]

NextRequests ==
    \/ RequestArrives
    \/ GetConversionStatus
    \/ DownloadEPUB
    \/ \E jobID \in JobIDs : WorkerRun(jobID)

\* GET requests while workers finish
SpecRequests ==
    InitRequests /\ [][NextRequests]_vars

(***************************************************************************)
(* C15: accesses to the job table                                          *)
(***************************************************************************)
\* an access to the conversionJobs map or to the Status field of a job, with
\* the mutexes held while it is made
Access(loc, write, locks) ==
    [loc |-> loc, write |-> write, locks |-> locks]

\* the goroutines that are in the middle of their work
Threads ==
    {<<"processConversion", id>> : id \in {i \in DOMAIN workers :
                                              workers[i].pc = "run"}}
        \cup (IF cleanupMutex = "cleanup" /\ cleanup.entries # {}
              THEN {<<"cleanupOldJobs", 0>>} ELSE {})
        \cup (IF handling.pc = "arrived"
              THEN {<<"request", handling.id>>} ELSE {})

\* the accesses the next step of the goroutine makes
NextAccesses(thread) ==
    CASE thread[1] = "processConversion" ->
            {Access(<<"conversionJobs">>, FALSE, {}),
             Access(<<"Status", thread[2]>>, TRUE, {})}
      [] thread[1] = "cleanupOldJobs" ->
            {Access(<<"conversionJobs">>, FALSE, {"cleanupMutex"})}
            \cup {Access(<<"Status", id>>, FALSE, {"cleanupMutex"}) :
                     id \in cleanup.entries \cap DOMAIN conversionJobs}
            \cup {Access(<<"conversionJobs">>, TRUE, {"cleanupMutex"}) :
                     id \in {i \in cleanup.entries \cap DOMAIN conversionJobs :
                                shouldCleanup(i, TRUE)}}
      [] OTHER ->
            {Access(<<"conversionJobs">>, FALSE, {})}
            \cup {Access(<<"Status", id>>, FALSE, {}) :
                     id \in {thread[2]} \cap DOMAIN conversionJobs}

\* two goroutines are about to access the same location, one of them
\* writing, without a mutex in common
DataRace(t1, t2) ==
    /\ t1 # t2
    /\ \E a1 \in NextAccesses(t1), a2 \in NextAccesses(t2) :
          /\ a1.loc = a2.loc
          /\ a1.write \/ a2.write
          /\ a1.locks \cap a2.locks = {}

\* C15: no two goroutines access the conversionJobs map or the Status of a
\* job at the same time when one of the accesses is a write or a delete.
C15_NoConcurrentAccess ==
    \A t1, t2 \in Threads : ~DataRace(t1, t2)

(***************************************************************************)
(* C16: the life of a job                                                  *)
(***************************************************************************)
Registered(jobID) ==
    jobID \in DOMAIN conversionJobs

Finished(jobID) ==
    /\ Registered(jobID)
    /\ conversionJobs[jobID].Status \in {JobStatusCompleted, JobStatusFailed}

Processing(jobID) ==
    /\ Registered(jobID)
    /\ conversionJobs[jobID].Status = JobStatusProcessing

\* a job enters the table as "processing"; its status changes only from
\* "processing", to "completed" when parsing and generation both succeeded
\* and to "failed" when one of them returned an error
StatusStep(jobID) ==
    /\ ~Registered(jobID) /\ Registered(jobID)' =>
          conversionJobs'[jobID].Status = JobStatusProcessing
    /\ /\ Registered(jobID)
       /\ Registered(jobID)'
       /\ conversionJobs'[jobID].Status # conversionJobs[jobID].Status
       => /\ conversionJobs[jobID].Status = JobStatusProcessing
          /\ workers'[jobID].outcome # "none"
          /\ conversionJobs'[jobID].Status =
                (IF workers'[jobID].outcome = "ok" THEN JobStatusCompleted
                 ELSE JobStatusFailed)
    /\ Finished(jobID) /\ Registered(jobID)' =>
          conversionJobs'[jobID].Status = conversionJobs[jobID].Status
    /\ Processing(jobID) => Registered(jobID)'

DownloadAnswered ==
    /\ handling.pc = "arrived"
    /\ handling.kind = "download"
    /\ handling'.pc = "responded"

Completed(jobID) ==
    /\ jobID \in DOMAIN conversionJobs
    /\ conversionJobs[jobID].Status = JobStatusCompleted

\* C17: DownloadEPUB answers 200 exactly when the job is in the table, its
\* status is "completed" and its output file exists; 404 for an unknown job
\* id, 400 for a job that is not completed and 404 for a completed job whose
\* file is missing.
C17_DownloadOnlyCompleted ==
    [][DownloadAnswered =>
          /\ handling'.code = 200 <=>
                Completed(handling.id) /\ handling.id \in outputs
          /\ handling.id \notin DOMAIN conversionJobs => handling'.code = 404
          /\ handling.id \in DOMAIN conversionJobs
                /\ ~Completed(handling.id) => handling'.code = 400
          /\ Completed(handling.id) /\ handling.id \notin outputs =>
                handling'.code = 404]_vars

\* a download was refused with 404 although the job is completed: its file
\* is missing
C17_Witness ==
    /\ handling.pc = "responded"
    /\ handling.kind = "download"
    /\ handling.code = 404
    /\ handling.body = "EPUB file not found"
    /\ \E jobID \in JobIDs : Completed(jobID) /\ jobID \notin outputs

(***************************************************************************)
(* C18: what a cleanup pass removes                                        *)
(***************************************************************************)
\* the entries of the temp folder removed in this step
RemovedDirs ==
    (DOMAIN tempDir) \ (DOMAIN tempDir')

\* the job records deleted in this step
DeletedJobs ==
    (DOMAIN conversionJobs) \ (DOMAIN conversionJobs')

\* C18: a directory is removed only when its job is in the table, completed
\* or failed and created more than an hour ago, or when no job with its id
\* is in the table and the directory was modified more than an hour ago; a
\* job record is deleted only together with the successful removal of its
\* directory.
C18_RemovesOnlyOldFinished ==
    [][/\ \A jobID \in RemovedDirs :
             IF jobID \in DOMAIN conversionJobs
             THEN /\ conversionJobs[jobID].Status \in {JobStatusCompleted,
                                                       JobStatusFailed}
                  /\ now - conversionJobs[jobID].CreatedAt > Hour
             ELSE now - tempDir[jobID].ModTime > Hour
       /\ \A jobID \in DeletedJobs : jobID \in RemovedDirs]_vars

\* a cleanup pass has removed the directory and the record of an old
\* finished job and has kept a job that is still processing, a finished job
\* that is not old enough, and an old finished job whose directory could not
\* be removed
C18_Witness ==
    /\ cleanupMutex = "cleanup"
    /\ cleanup.entries = {}
    /\ \E i, j \in JobIDs :
          /\ i \in DOMAIN workers
          /\ i \notin DOMAIN conversionJobs
          /\ i \notin DOMAIN tempDir
          /\ Finished(j)
          /\ j \in DOMAIN tempDir
          /\ cleanup.now - conversionJobs[j].CreatedAt > Hour
    /\ LeftoverID \notin DOMAIN tempDir

(***************************************************************************)
(* C19: the trigger of the cleanup                                         *)
(***************************************************************************)
\* the conversions that have stored "completed" and have left the section
\* under cleanupMutex (lines 185-190)
Counted ==
    {jobID \in DOMAIN workers :
        /\ workers[jobID].outcome = "ok"
        /\ workers[jobID].pc \in {"trigger", "done"}}

\* the conversions that found shouldCleanup set and have not yet executed
\* the go statement of line 194
AboutToTrigger ==
    {jobID \in DOMAIN workers : workers[jobID].pc = "trigger"}

\* C19: the counter is always in 0..CleanupTriggerCount-1 outside the
\* locked section and equals the number of completed conversions since the
\* last reset; a cleanup is started once per CleanupTriggerCount completed
\* conversions, by the conversion that makes the counter reach
\* CleanupTriggerCount, whatever the interleaving of the conversions; failed
\* conversions do not count.
C19_OneCleanupPerTriggerCount ==
    /\ completedJobCount \in 0..(CleanupTriggerCount - 1)
    /\ completedJobCount = Cardinality(Counted) % CleanupTriggerCount
    /\ cleanupsStarted + Cardinality(AboutToTrigger)
          = Cardinality(Counted) \div CleanupTriggerCount

\* a cleanup has been started and a later conversion has completed without
\* starting another one
C19_Witness ==
    /\ cleanupsStarted >= 1
    /\ completedJobCount >= 1
    /\ AboutToTrigger = {}
    /\ Cardinality(Counted) > CleanupTriggerCount

(***************************************************************************)
(* C20: the titles of the navigation entries                               *)
(***************************************************************************)
\* the texts of the title paragraphs of a section
L_TitleTexts(section) ==
    [n \in 1..Len(section.Title.Paragraph) |->
        section.Title.Paragraph[n].Text]

\* the title the section is to be listed under
L_EntryTitle(section) ==
    LET joined == Join(L_TitleTexts(section), <<" ">>)
    IN  IF joined = <<>> THEN S_UntitledSection ELSE joined

\* C20: the entry of every titled section carries the texts of the title
\* paragraphs of the section joined with a single space, or "Untitled
\* Section" when that string is empty.
C20_TitleIsJoinedText ==
    Succeeded =>
        \A k \in 1..Len(AllSections) :
            Titled(AllSections[k].section) =>
                LET found == FindEntry(buildTOC(fb2), AllSections[k].id)
                IN  /\ Len(found) = 1
                    /\ found[1].Title = L_EntryTitle(AllSections[k].section)

(***************************************************************************)
(* C21: heading levels                                                     *)
(***************************************************************************)
\* the sections of a list in document order, each with its id and its
\* nesting depth (0 for the sections of the body)
RECURSIVE PreorderDepth(_, _, _, _)
PreorderDepth(sections, parent, i, d) ==
    IF i > Len(sections) THEN <<>>
    ELSE LET id == IF parent = <<>> THEN S_section \o Itoa(i - 1)
                   ELSE parent \o S_sub \o Itoa(i - 1)
         IN  <<[id |-> id, depth |-> d, section |-> sections[i]]>>
             \o PreorderDepth(sections[i].Section, id, 1, d + 1)
             \o PreorderDepth(sections, parent, i + 1, d)

SectionsWithDepth ==
    PreorderDepth(fb2.Body.Section, <<>>, 1, 0)

L_Levels ==
    <<"1", "2", "3", "4", "5", "6">>

\* h<min(d+1, 6)>
L_HeadingTag(d) ==
    <<"h", L_Levels[IF d + 1 < 6 THEN d + 1 ELSE 6]>>

\* the headings of content.xhtml that carry the id of a section
HeadingsOf(id) ==
    SelectSeq(ContentBody, LAMBDA e : e.kind = "heading" /\ e.id = id)

\* C21: every heading of a titled section at nesting depth d has the tag
\* h<min(d+1, 6)>, one heading per title paragraph; a section without a
\* title, or with a title without text blocks, has no heading.
C21_HeadingLevel ==
    Succeeded =>
        \A k \in 1..Len(SectionsWithDepth) :
            LET s  == SectionsWithDepth[k]
                hs == HeadingsOf(s.id)
            IN  IF Titled(s.section)
                THEN /\ Len(hs) = Len(s.section.Title.Paragraph)
                     /\ \A n \in 1..Len(hs) : hs[n].tag = L_HeadingTag(s.depth)
                ELSE hs = <<>>

\* a document with titled sections at depth 5 and at depth 6 and with an
\* untitled section has been rendered
C21_Witness ==
    /\ Succeeded /\ pc = "done"
    /\ \E i, j, k \in 1..Len(SectionsWithDepth) :
          /\ SectionsWithDepth[i].depth = 5
          /\ Titled(SectionsWithDepth[i].section)
          /\ SectionsWithDepth[j].depth = 6
          /\ Titled(SectionsWithDepth[j].section)
          /\ ~Titled(SectionsWithDepth[k].section)

(***************************************************************************)
(* C22: the order of the content of a section                              *)
(***************************************************************************)
Mark(kind, id, text) ==
    [kind |-> kind, id |-> id, text |-> text]

\* one heading per title paragraph
L_TitleMarks(section, id) ==
    IF Titled(section)
    THEN [n \in 1..Len(section.Title.Paragraph) |-> Mark("heading", id, <<>>)]
    ELSE <<>>

\* the paragraphs that render to some text
RECURSIVE L_ParagraphMarks(_)
L_ParagraphMarks(ps) ==
    IF ps = <<>> THEN <<>>
    ELSE (IF processParagraph(Head(ps), imageMap) # <<>>
          THEN <<Mark("p", <<>>, processParagraph(Head(ps), imageMap))>>
          ELSE <<>>)
         \o L_ParagraphMarks(Tail(ps))

RECURSIVE L_CiteMarks(_)
L_CiteMarks(cs) ==
    IF cs = <<>> THEN <<>>
    ELSE <<Mark("cite", <<>>, <<>>)>> \o L_ParagraphMarks(Head(cs).Paragraph)
         \o L_CiteMarks(Tail(cs))

\* title, own paragraphs, empty lines, nested sections, poems, citations
RECURSIVE L_SectionMarks(_, _, _)
L_SectionMarks(sections, parent, i) ==
    IF i > Len(sections) THEN <<>>
    ELSE LET id == IF parent = <<>> THEN S_section \o Itoa(i - 1)
                   ELSE parent \o S_sub \o Itoa(i - 1)
             section == sections[i]
         IN  L_TitleMarks(section, id)
             \o L_ParagraphMarks(section.Paragraph)
             \o [n \in 1..section.EmptyLine |-> Mark("empty-line", <<>>, <<>>)]
             \o L_SectionMarks(section.Section, id, 1)
             \o [n \in 1..Len(section.Poem) |-> Mark("poem", <<>>, <<>>)]
             \o L_CiteMarks(section.Cite)
             \o L_SectionMarks(sections, parent, i + 1)

\* the body title as <h1>, then the sections
L_ContentMarks ==
    [n \in 1..Len(fb2.Body.Title.Paragraph) |->
        [kind |-> "heading", id |-> <<>>, text |-> <<>>, tag |-> <<"h", "1">>]]
    \o [n \in 1..Len(L_SectionMarks(fb2.Body.Section, <<>>, 1)) |->
          LET m == L_SectionMarks(fb2.Body.Section, <<>>, 1)[n]
          IN  [kind |-> m.kind, id |-> m.id, text |-> m.text, tag |-> <<>>]]

\* the headings, paragraphs with text, empty lines, poems and citations of
\* content.xhtml in the order they were written
ContentMarks ==
    LET es == SelectSeq(ContentBody,
                        LAMBDA e : \/ e.kind \in {"heading", "empty-line",
                                                  "poem", "cite"}
                                   \/ e.kind = "p" /\ e.text # <<>>)
    IN  [n \in 1..Len(es) |->
            [kind |-> es[n].kind,
             id   |-> es[n].id,
             text |-> IF es[n].kind = "p" THEN es[n].text ELSE <<>>,
             tag  |-> IF es[n].kind = "heading" /\ es[n].id = <<>>
                      THEN es[n].tag ELSE <<>>]]

\* C22: content.xhtml carries the body title as <h1> first and then, for
\* every section at every level, its headings, its paragraphs, its empty
\* lines, its nested sections each rendered completely, its poems and its
\* citations, in this order.
C22_SectionOrder ==
    Succeeded => SameSeq(ContentMarks, L_ContentMarks)

\* a document with a body title has been rendered whose section has a
\* title, a paragraph, an empty line, a nested section with a poem and a
\* citation of its own, a poem and a citation
C22_Witness ==
    /\ Succeeded /\ pc = "done"
    /\ Len(fb2.Body.Title.Paragraph) > 0
    /\ Len(fb2.Body.Section) = 1
    /\ LET section == fb2.Body.Section[1]
       IN  /\ Titled(section)
           /\ L_ParagraphMarks(section.Paragraph) # <<>>
           /\ section.EmptyLine > 0
           /\ Len(section.Section) > 0
           /\ Len(section.Section[1].Poem) > 0
           /\ Len(section.Section[1].Cite) > 0
           /\ Len(section.Poem) > 0
           /\ L_CiteMarks(section.Cite) # <<>>

(***************************************************************************)
(* C23: the links of a paragraph                                           *)
(***************************************************************************)
L_OccursAt(s, t, i) ==
    /\ i + Len(t) - 1 <= Len(s)
    /\ SubSeq(s, i, i + Len(t) - 1) = t

L_Occurs(s, t) ==
    \E i \in 1..Len(s) : L_OccursAt(s, t, i)

\* s with the first occurrence of t replaced by markup
L_FirstReplaced(s, t, markup) ==
    LET i == CHOOSE i \in 1..Len(s) :
                 /\ L_OccursAt(s, t, i)
                 /\ \A j \in 1..(i - 1) : ~L_OccursAt(s, t, j)
    IN  SubSeq(s, 1, i - 1) \o markup \o SubSeq(s, i + Len(t), Len(s))

\* <a href="...">text</a>, the href standing in for an empty text
L_RenderedLink(link) ==
    S_aOpen \o EscapeString(link.Href) \o S_aMid
    \o (IF link.Text = <<>> THEN EscapeString(link.Href)
        ELSE EscapeString(link.Text))
    \o S_aClose

L_WithLink(text, link) ==
    IF link.Text # <<>> /\ L_Occurs(text, EscapeString(link.Text))
    THEN L_FirstReplaced(text, EscapeString(link.Text), L_RenderedLink(link))
    ELSE text \o <<" ">> \o L_RenderedLink(link)

RECURSIVE L_WithLinks(_, _)
L_WithLinks(text, links) ==
    IF links = <<>> THEN text
    ELSE L_WithLinks(L_WithLink(text, Head(links)), Tail(links))

\* C23: the links are handled first, on the escaped text of the paragraph
\* and in parse order: a link whose text is not empty and whose escaped
\* form occurs in the accumulated text replaces the first occurrence, any
\* other link is appended after a single space; the strong spans come next.
C23_LinksReplaceOrAppend ==
    [][pc = "links" =>
          /\ result = EscapeString(para.Text)
          /\ result' = L_WithLinks(result, para.Link)
          /\ pc' = "strong"]_vars

\* two links have been handled, the first by replacing its text in the
\* paragraph and the second by appending
C23_Witness ==
    /\ pc = "strong"
    /\ Len(para.Link) = 2
    /\ para.Link[1].Text # <<>>
    /\ L_Occurs(EscapeString(para.Text), EscapeString(para.Link[1].Text))
    /\ para.Link[2].Text # <<>>
    /\ ~L_Occurs(L_WithLink(EscapeString(para.Text), para.Link[1]),
                 EscapeString(para.Link[2].Text))

(***************************************************************************)
(* C24: the strong and emphasis spans of a paragraph                       *)
(***************************************************************************)
\* replace the first occurrence of the escaped display text or append
L_WithSpan(text, display, markup) ==
    IF display # <<>> /\ L_Occurs(text, EscapeString(display))
    THEN L_FirstReplaced(text, EscapeString(display), markup)
    ELSE text \o <<" ">> \o markup

RECURSIVE L_WithStrongs(_, _), L_WithEmphases(_, _)
L_WithStrongs(text, spans) ==
    IF spans = <<>> THEN text
    ELSE L_WithStrongs(L_WithSpan(text, extractStrongText(Head(spans)),
                                  processStrong(Head(spans))),
                       Tail(spans))

L_WithEmphases(text, spans) ==
    IF spans = <<>> THEN text
    ELSE L_WithEmphases(L_WithSpan(text, extractEmphasisText(Head(spans)),
                                   processEmphasis(Head(spans))),
                        Tail(spans))

\* C24 as stated: after the links every strong span and then every
\* emphasis span replaces the first occurrence of its display text whenever
\* that text is not empty and occurs in the accumulated text, and is
\* appended otherwise; the images come last.
C24_SpansReplaceOrAppend ==
    [][/\ pc = "links" => pc' = "strong"
       /\ pc = "strong" =>
             /\ result' = L_WithStrongs(result, para.Strong)
             /\ pc' = "emphasis"
       /\ pc = "emphasis" =>
             /\ result' = L_WithEmphases(result, para.Emphasis)
             /\ pc' = "images"]_vars

\* a span is looked for in the accumulated text only when it has text of
\* its own or a nested link
L_Anchored(span) ==
    span.Text # <<>> \/ Len(span.Link) > 0

L_WithOwnSpan(text, span, display, markup) ==
    IF L_Anchored(span) THEN L_WithSpan(text, display, markup)
    ELSE text \o <<" ">> \o markup

RECURSIVE L_WithOwnStrongs(_, _), L_WithOwnEmphases(_, _)
L_WithOwnStrongs(text, spans) ==
    IF spans = <<>> THEN text
    ELSE L_WithOwnStrongs(
             L_WithOwnSpan(text, Head(spans), extractStrongText(Head(spans)),
                           processStrong(Head(spans))),
             Tail(spans))

L_WithOwnEmphases(text, spans) ==
    IF spans = <<>> THEN text
    ELSE L_WithOwnEmphases(
             L_WithOwnSpan(text, Head(spans),
                           extractEmphasisText(Head(spans)),
                           processEmphasis(Head(spans))),
             Tail(spans))

\* C24, amended: the replacement is made only for a span that has text of
\* its own or a nested link; a span whose display text comes from nested
\* strong or emphasis spans alone is always appended.
C24_OwnTextSpansReplaceOrAppend ==
    [][/\ pc = "links" => pc' = "strong"
       /\ pc = "strong" =>
             /\ result' = L_WithOwnStrongs(result, para.Strong)
             /\ pc' = "emphasis"
       /\ pc = "emphasis" =>
             /\ result' = L_WithOwnEmphases(result, para.Emphasis)
             /\ pc' = "images"]_vars

\* a strong span without text of its own, whose display text occurs in the
\* paragraph, has been appended, and the emphasis spans have been handled
\* after it
C24_Witness ==
    /\ pc = "images"
    /\ Len(para.Strong) = 1
    /\ ~L_Anchored(para.Strong[1])
    /\ extractStrongText(para.Strong[1]) # <<>>
    /\ L_Occurs(L_WithLinks(EscapeString(para.Text), para.Link),
                EscapeString(extractStrongText(para.Strong[1])))
    /\ Len(para.Emphasis) = 1
    /\ L_Anchored(para.Emphasis[1])
    /\ L_Occurs(result, processStrong(para.Strong[1]))
    /\ L_Occurs(result, processEmphasis(para.Emphasis[1]))

(***************************************************************************)
(* C25: the paths of the images shown in content.xhtml                     *)
(***************************************************************************)
L_EndsWith(s, t) ==
    /\ Len(t) <= Len(s)
    /\ SubSeq(s, Len(s) - Len(t) + 1, Len(s)) = t

\* the extensions under which the archive holds the image `id`
L_WrittenExtensions(id) ==
    {ext \in L_Extensions :
        \E i \in ImageEntries :
            entries[i].Name = S_imagesDir \o id \o ext}

\* images/<id><ext> as the resource is written, images/<id>.jpg for an id
\* without resource
L_ImagePath(id) ==
    IF L_WrittenExtensions(id) # {}
    THEN S_images \o id \o (CHOOSE ext \in L_WrittenExtensions(id) : TRUE)
    ELSE S_images \o id \o S_jpg

RECURSIVE L_Imgs(_)
L_Imgs(images) ==
    IF images = <<>> THEN <<>>
    ELSE S_imgOpen
         \o EscapeString(L_ImagePath(TrimPrefix(Head(images).Href, <<"#">>)))
         \o S_imgClose \o L_Imgs(Tail(images))

\* C25: every image reference of a title paragraph or of a paragraph of a
\* section is rendered as <img> whose src is the path under which the
\* referenced resource is written, or images/<id>.jpg when the document has
\* no resource of that id.
C25_ImagePaths ==
    Succeeded =>
        \A k \in 1..Len(AllSections) :
            LET s == AllSections[k]
            IN  /\ Titled(s.section) =>
                      \A n \in 1..Len(s.section.Title.Paragraph) :
                          /\ n <= Len(HeadingsOf(s.id))
                          /\ L_EndsWith(HeadingsOf(s.id)[n].text,
                                 L_Imgs(s.section.Title.Paragraph[n].Image))
                /\ \A n \in 1..Len(s.section.Paragraph) :
                      s.section.Paragraph[n].Image # <<>> =>
                          \E m \in 1..Len(ContentBody) :
                              /\ ContentBody[m].kind = "p"
                              /\ L_EndsWith(ContentBody[m].text,
                                     L_Imgs(s.section.Paragraph[n].Image))

(***************************************************************************)
(* C26: paragraphs without text                                            *)
(***************************************************************************)
\* C26: content.xhtml holds no <p> without content, neither for a
\* paragraph of a section nor for a paragraph of a citation.
C26_NoEmptyParagraph ==
    Succeeded =>
        \A m \in 1..Len(ContentBody) :
            ContentBody[m].kind = "p" => ContentBody[m].text # <<>>

(***************************************************************************)
(* C27: the identifier of the book                                         *)
(***************************************************************************)
\* C27: the dc:identifier of content.opf and the dtb:uid of toc.ncx of one
\* archive are the same value.
C27_SameIdentifier ==
    Len(entries) >= 4 /\ entries[3].Written /\ entries[4].Written =>
        entries[3].Data.identifier = entries[4].Data.uid

(***************************************************************************)
(* C28: the ids of the manifest                                            *)
(***************************************************************************)
\* C28: the items of the manifest have pairwise distinct ids, and the
\* binaries of one id yield one image item and one archive entry.
C28_ManifestIDsDistinct ==
    Succeeded =>
        /\ \A k, l \in 1..Len(Manifest) :
              Manifest[k].id = Manifest[l].id => k = l
        /\ \A b \in DecodedBinaries :
              /\ Cardinality({k \in ManifestImageItems :
                     Manifest[k].href = S_images \o fb2.Binary[b].ID
                         \o SubSeq(Manifest[k].href,
                                   Len(S_images) + Len(fb2.Binary[b].ID) + 1,
                                   Len(Manifest[k].href))
                     /\ Manifest[k].id = fb2.Binary[b].ID}) = 1
              /\ Cardinality({i \in ImageEntries :
                     \E ext \in L_Extensions :
                         entries[i].Name
                             = S_imagesDir \o fb2.Binary[b].ID \o ext}) = 1

(***************************************************************************)
(* C29: the ids of content.xhtml                                           *)
(***************************************************************************)
\* C29: no two elements of content.xhtml carry the same id.
C29_IDsUnique ==
    Succeeded =>
        \A m, n \in 1..Len(ContentBody) :
            /\ ContentBody[m].id # <<>>
            /\ ContentBody[m].id = ContentBody[n].id
            => m = n

(***************************************************************************)
(* C30: the markup of a rendered paragraph                                 *)
(***************************************************************************)
L_Opening ==
    {[tag |-> <<"<", "s", "t", "r", "o", "n", "g", ">">>, name |-> "strong"],
     [tag |-> <<"<", "e", "m", ">">>, name |-> "em"]}

L_Closing ==
    {[tag |-> <<"<", "/", "a", ">">>, name |-> "a"],
     [tag |-> <<"<", "/", "s", "t", "r", "o", "n", "g", ">">>,
      name |-> "strong"],
     [tag |-> <<"<", "/", "e", "m", ">">>, name |-> "em"]}

\* from position i on, with the elements of `open` still open (innermost
\* last): every "<" starts a tag of the renderer, a closing tag closes the
\* innermost open element, and at the end no element is open
RECURSIVE Nested(_, _, _)
Nested(s, i, open) ==
    IF i > Len(s) THEN open = <<>>
    ELSE IF s[i] # "<" THEN Nested(s, i + 1, open)
    ELSE \/ \E t \in L_Opening :
               /\ HasPrefixAt(s, t.tag, i)
               /\ Nested(s, i + Len(t.tag), Append(open, t.name))
         \/ \E t \in L_Closing :
               /\ HasPrefixAt(s, t.tag, i)
               /\ open # <<>>
               /\ open[Len(open)] = t.name
               /\ Nested(s, i + Len(t.tag), SubSeq(open, 1, Len(open) - 1))
         \/ /\ HasPrefixAt(s, L_AnchorOpen, i)
            /\ LET q == QuoteFrom(s, i + Len(L_AnchorOpen))
               IN  /\ q # 0
                   /\ HasPrefixAt(s, L_AnchorEnd, q)
                   /\ Nested(s, q + Len(L_AnchorEnd), Append(open, "a"))
         \/ /\ HasPrefixAt(s, L_ImgOpen, i)
            /\ LET q == QuoteFrom(s, i + Len(L_ImgOpen))
               IN  /\ q # 0
                   /\ HasPrefixAt(s, L_ImgEnd, q)
                   /\ Nested(s, q + Len(L_ImgEnd), open)

\* C30: in the fragment returned by processParagraph every tag is one the
\* renderer wrote, unmodified, every opened element is closed and the
\* elements are properly nested.
C30_MarkupIntact ==
    pc = "returned" => Nested(result, 1, <<>>)
====
